---------------------------- MODULE Spec2Model ----------------------------
(***************************************************************************)
(* Vyuha AI: the decision-validation-retry loop (agent/src/main.py), the   *)
(* command validator (agent/src/security.py), the proposer's contract      *)
(* (agent/src/commander.py) and the spacecraft state store                 *)
(* (agent/src/state_manager.py).                                           *)
(*                                                                         *)
(* Text is modelled as a sequence of one-character strings, so that        *)
(* upper-casing, substring search, splitting and sorting are computed the  *)
(* way the Python code computes them.  A JSON object (a Python dict) is a  *)
(* sequence of [k, v] pairs in insertion order; a JSON value is a record   *)
(* tagged "str" (its characters), "num" (the characters of its repr) or    *)
(* "null".                                                                 *)
(***************************************************************************)
EXTENDS Integers, Sequences, FiniteSets, TLC

(***************************************************************************)
(* Text literals of the source, and of the inputs the model draws.         *)
(***************************************************************************)

\* 'action'
K_action ==
    <<"a","c","t","i","o","n">>

\* 'reasoning'
K_reasoning ==
    <<"r","e","a","s","o","n","i","n","g">>

\* 'confidence_score'
K_confidence_score ==
    <<"c","o","n","f","i","d","e","n","c","e","_","s","c","o","r","e">>

\* 'recommended_thrust_direction'
K_recommended_thrust_direction ==
    <<"r","e","c","o","m","m","e","n","d","e","d","_","t","h","r","u","s","t","_","d","i","r","e",
    "c","t","i","o","n">>

\* 'SELF_DESTRUCT'
KW_SELF_DESTRUCT ==
    <<"S","E","L","F","_","D","E","S","T","R","U","C","T">>

\* 'DE-ORBIT'
KW_DE_ORBIT_HYPHEN ==
    <<"D","E","-","O","R","B","I","T">>

\* 'DE_ORBIT'
KW_DE_ORBIT ==
    <<"D","E","_","O","R","B","I","T">>

\* 'DEORBIT'
KW_DEORBIT ==
    <<"D","E","O","R","B","I","T">>

\* 'DESTRUCT'
KW_DESTRUCT ==
    <<"D","E","S","T","R","U","C","T">>

\* 'WEAPONIZE'
KW_WEAPONIZE ==
    <<"W","E","A","P","O","N","I","Z","E">>

\* 'ATTACK'
KW_ATTACK ==
    <<"A","T","T","A","C","K">>

\* 'DISABLE_SHIELD'
KW_DISABLE_SHIELD ==
    <<"D","I","S","A","B","L","E","_","S","H","I","E","L","D">>

\* 'FIRE_THRUSTERS'
T_FIRE_THRUSTERS ==
    <<"F","I","R","E","_","T","H","R","U","S","T","E","R","S">>

\* 'HOLD_POSITION'
T_HOLD_POSITION ==
    <<"H","O","L","D","_","P","O","S","I","T","I","O","N">>

\* 'AI_ERROR_FALLBACK'
T_AI_ERROR_FALLBACK ==
    <<"A","I","_","E","R","R","O","R","_","F","A","L","L","B","A","C","K">>

\* 'NONE'
T_NONE ==
    <<"N","O","N","E">>

\* 'PROGRADE'
T_PROGRADE ==
    <<"P","R","O","G","R","A","D","E">>

\* 'RETROGRADE'
T_RETROGRADE ==
    <<"R","E","T","R","O","G","R","A","D","E">>

\* 'TOWARD_DEBRIS'
T_TOWARD_DEBRIS ==
    <<"T","O","W","A","R","D","_","D","E","B","R","I","S">>

\* 'Simulated attacker injection: malicious command to fire thrusters toward debris to cause collision or de-orbit.'
T_MALICIOUS_REASONING ==
    <<"S","i","m","u","l","a","t","e","d"," ","a","t","t","a","c","k","e","r"," ","i","n","j","e",
    "c","t","i","o","n",":"," ","m","a","l","i","c","i","o","u","s"," ","c","o","m","m","a","n","d",
    " ","t","o"," ","f","i","r","e"," ","t","h","r","u","s","t","e","r","s"," ","t","o","w","a","r",
    "d"," ","d","e","b","r","i","s"," ","t","o"," ","c","a","u","s","e"," ","c","o","l","l","i","s",
    "i","o","n"," ","o","r"," ","d","e","-","o","r","b","i","t",".">>

\* 'UNSAFE'
T_UNSAFE ==
    <<"U","N","S","A","F","E">>

\* 'POLICY_VIOLATION'
T_POLICY_VIOLATION ==
    <<"P","O","L","I","C","Y","_","V","I","O","L","A","T","I","O","N">>

\* 'UNKNOWN'
T_UNKNOWN ==
    <<"U","N","K","N","O","W","N">>

\* 'SECURITY ALERT: Command blocked due to ['
T_ALERT_HEAD ==
    <<"S","E","C","U","R","I","T","Y"," ","A","L","E","R","T",":"," ","C","o","m","m","a","n","d",
    " ","b","l","o","c","k","e","d"," ","d","u","e"," ","t","o"," ","[">>

\* ']. Generate a SAFE alternative.'
T_ALERT_TAIL ==
    <<"]","."," ","G","e","n","e","r","a","t","e"," ","a"," ","S","A","F","E"," ","a","l","t","e",
    "r","n","a","t","i","v","e",".">>

\* "\n\nCRITICAL UPDATE: Your previous plan was BLOCKED by the security system because: '"
T_UPDATE_HEAD ==
    <<"\n","\n","C","R","I","T","I","C","A","L"," ","U","P","D","A","T","E",":"," ","Y","o","u","r",
    " ","p","r","e","v","i","o","u","s"," ","p","l","a","n"," ","w","a","s"," ","B","L","O","C","K",
    "E","D"," ","b","y"," ","t","h","e"," ","s","e","c","u","r","i","t","y"," ","s","y","s","t","e",
    "m"," ","b","e","c","a","u","s","e",":"," ","'">>

\* "'. You must generate a NEW plan that avoids this specific violation."
T_UPDATE_TAIL ==
    <<"'","."," ","Y","o","u"," ","m","u","s","t"," ","g","e","n","e","r","a","t","e"," ","a"," ",
    "N","E","W"," ","p","l","a","n"," ","t","h","a","t"," ","a","v","o","i","d","s"," ","t","h","i",
    "s"," ","s","p","e","c","i","f","i","c"," ","v","i","o","l","a","t","i","o","n",".">>

\* '0.0'
N_0_0 ==
    <<"0",".","0">>

\* '0.99'
N_0_99 ==
    <<"0",".","9","9">>

\* '0.92'
N_0_92 ==
    <<"0",".","9","2">>

\* '0.5'
N_0_5 ==
    <<"0",".","5">>

\* 'Collision probability exceeds threshold.'
R_high_risk ==
    <<"C","o","l","l","i","s","i","o","n"," ","p","r","o","b","a","b","i","l","i","t","y"," ","e",
    "x","c","e","e","d","s"," ","t","h","r","e","s","h","o","l","d",".">>

\* 'Critical failure detected.'
R_critical_failure ==
    <<"C","r","i","t","i","c","a","l"," ","f","a","i","l","u","r","e"," ","d","e","t","e","c","t",
    "e","d",".">>

\* 'Retire, then de-orbit.'
R_lower_deorbit ==
    <<"R","e","t","i","r","e",","," ","t","h","e","n"," ","d","e","-","o","r","b","i","t",".">>

\* 'Say "go".'
R_quote ==
    <<"S","a","y"," ","\"","g","o","\"",".">>

\* 'Weaponize'
T_Weaponize ==
    <<"W","e","a","p","o","n","i","z","e">>

\* 'attack_mode'
K_attack_mode ==
    <<"a","t","t","a","c","k","_","m","o","d","e">>

\* 'on'
T_on ==
    <<"o","n">>

\* 'SAFE'
REPLY_SAFE ==
    <<"S","A","F","E">>

\* ' unsafe injection, Harm ,\n'
REPLY_unsafe_tags ==
    <<" ","u","n","s","a","f","e"," ","i","n","j","e","c","t","i","o","n",","," ","H","a","r","m",
    " ",",","\n">>

\* 'UNSAFE'
REPLY_UNSAFE_bare ==
    <<"U","N","S","A","F","E">>

\* 'Unsafe , '
REPLY_UNSAFE_empty ==
    <<"U","n","s","a","f","e"," ",","," ">>

\* 'ok'
REPLY_other ==
    <<"o","k">>

\* 'De-Orbit'
T_De_Orbit ==
    <<"D","e","-","O","r","b","i","t">>

\* 'deorbit'
T_deorbit ==
    <<"d","e","o","r","b","i","t">>

\* 'Attack now.'
R_attack ==
    <<"A","t","t","a","c","k"," ","n","o","w",".">>

\* code points 32..126 in order (the backtick, which a TLA+ string cannot hold,
\* is written "<backtick>"): ' !"#$%&\'()*+,-./0123456789:;<=>?@ABCDEFGHIJKLMNOPQRSTUVWXYZ[\\]^_`abcdefghijklmnopqrstuvwxyz{|}~'
AsciiPrintable ==
    <<" ","!","\"","#","$","%","&","'","(",")","*","+",",","-",".","/","0","1","2","3","4","5","6",
    "7","8","9",":",";","<","=",">","?","@","A","B","C","D","E","F","G","H","I","J","K","L","M","N",
    "O","P","Q","R","S","T","U","V","W","X","Y","Z","[","\\","]","^","_","<backtick>","a","b","c","d","e",
    "f","g","h","i","j","k","l","m","n","o","p","q","r","s","t","u","v","w","x","y","z","{","|","}",
    "~">>

\* 'thrust_direction'
K_thrust_direction ==
    <<"t","h","r","u","s","t","_","d","i","r","e","c","t","i","o","n">>

(***************************************************************************)
(* Text primitives (Python str methods on ASCII text).                     *)
(***************************************************************************)

\* The characters of the model's texts.
Chars ==
    {AsciiPrintable[i] : i \in 1..Len(AsciiPrintable)} \cup {"\n"}

\* ord(c): a printable ASCII character's code point; "\n" is 10.
OrdTable ==
    [c \in Chars |-> IF c = "\n" THEN 10
                     ELSE CHOOSE i \in 32..126 : AsciiPrintable[i - 31] = c]

Ord(c) ==
    OrdTable[c]

\* str.upper() on one ASCII character.
UpperTable ==
    [c \in Chars |-> IF OrdTable[c] \in 97..122
                     THEN AsciiPrintable[OrdTable[c] - 32 - 31]
                     ELSE c]

UpperChar(c) ==
    UpperTable[c]

\* The upper-cased characters of s[lo..hi] (by halves, to keep the evaluation
\* shallow).
RECURSIVE UpperRange(_, _, _)
UpperRange(s, lo, hi) ==
    IF lo > hi THEN <<>>
    ELSE IF lo = hi THEN <<UpperChar(s[lo])>>
    ELSE LET mid == (lo + hi) \div 2
         IN  UpperRange(s, lo, mid) \o UpperRange(s, mid + 1, hi)

\* str.upper()
Upper(s) ==
    UpperRange(s, 1, Len(s))

\* needle in hay
Contains(hay, needle) ==
    \E i \in 0..(Len(hay) - Len(needle)) :
        \A j \in 1..Len(needle) : hay[i + j] = needle[j]

\* hay.startswith(prefix)
StartsWith(hay, prefix) ==
    /\ Len(hay) >= Len(prefix)
    /\ \A j \in 1..Len(prefix) : hay[j] = prefix[j]

\* The characters str.strip() and str.split(None) treat as whitespace.
IsSpace(c) ==
    c \in {" ", "\n"}

\* str.lstrip()
LStrip(s) ==
    IF \A i \in 1..Len(s) : IsSpace(s[i]) THEN <<>>
    ELSE SubSeq(s, CHOOSE i \in 1..Len(s) :
                      ~IsSpace(s[i]) /\ \A j \in 1..(i - 1) : IsSpace(s[j]),
                Len(s))

\* str.rstrip()
RStrip(s) ==
    IF \A i \in 1..Len(s) : IsSpace(s[i]) THEN <<>>
    ELSE SubSeq(s, 1, CHOOSE i \in 1..Len(s) :
                         ~IsSpace(s[i]) /\ \A j \in (i + 1)..Len(s) : IsSpace(s[j]))

\* str.strip()
Strip(s) ==
    RStrip(LStrip(s))

\* Index of the first whitespace character of s, or 0.
FirstSpace(s) ==
    IF \E i \in 1..Len(s) : IsSpace(s[i])
    THEN CHOOSE i \in 1..Len(s) : IsSpace(s[i]) /\ \A j \in 1..(i - 1) : ~IsSpace(s[j])
    ELSE 0

\* s.split(None, 1): at most two parts, split at the first whitespace run;
\* leading whitespace is skipped and the remainder keeps its trailing text.
SplitWs1(s) ==
    LET t == LStrip(s)
        k == FirstSpace(t)
    IN  IF t = <<>> THEN <<>>
        ELSE IF k = 0 THEN <<t>>
        ELSE LET rest == LStrip(SubSeq(t, k, Len(t)))
             IN  IF rest = <<>> THEN <<SubSeq(t, 1, k - 1)>>
                 ELSE <<SubSeq(t, 1, k - 1), rest>>

\* s.split(","): never empty, one more part than there are commas.
RECURSIVE SplitComma(_)
SplitComma(s) ==
    LET k == IF \E i \in 1..Len(s) : s[i] = ","
             THEN CHOOSE i \in 1..Len(s) :
                      s[i] = "," /\ \A j \in 1..(i - 1) : s[j] # ","
             ELSE 0
    IN  IF k = 0 THEN <<s>>
        ELSE <<SubSeq(s, 1, k - 1)>> \o SplitComma(SubSeq(s, k + 1, Len(s)))

\* sep.join(parts)
RECURSIVE Join(_, _)
Join(sep, parts) ==
    IF parts = <<>> THEN <<>>
    ELSE IF Len(parts) = 1 THEN parts[1]
    ELSE parts[1] \o sep \o Join(sep, Tail(parts))

\* a < b for str (lexicographic by code point)
RECURSIVE StrLess(_, _)
StrLess(a, b) ==
    IF b = <<>> THEN FALSE
    ELSE IF a = <<>> THEN TRUE
    ELSE IF Ord(Head(a)) # Ord(Head(b)) THEN Ord(Head(a)) < Ord(Head(b))
    ELSE StrLess(Tail(a), Tail(b))

\* sorted(S) for a finite set of strings
RECURSIVE SortedSeq(_)
SortedSeq(S) ==
    IF S = {} THEN <<>>
    ELSE LET m == CHOOSE x \in S : \A y \in S \ {x} : StrLess(x, y)
         IN  <<m>> \o SortedSeq(S \ {m})

(***************************************************************************)
(* JSON values and json.dumps (default separators, ensure_ascii).          *)
(***************************************************************************)

None == [t |-> "null"]

JStr(chars) == [t |-> "str", v |-> chars]

JNum(repr) == [t |-> "num", v |-> repr]

\* d.get(key): the value stored under key, or None.
Get(d, key) ==
    IF \E i \in 1..Len(d) : d[i].k = key
    THEN d[CHOOSE i \in 1..Len(d) : d[i].k = key].v
    ELSE None

\* key in d
HasKey(d, key) ==
    \E i \in 1..Len(d) : d[i].k = key

\* json.dumps of one character of a str: the quote, the backslash and the
\* newline are escaped.
JsonEscapeChar(c) ==
    IF c \in {"\"", "\\"} THEN <<"\\", c>>
    ELSE IF c = "\n" THEN <<"\\", "n">>
    ELSE <<c>>

\* The escaped characters of s[lo..hi], concatenated (by halves, to keep the
\* evaluation shallow).
RECURSIVE JsonEscapeRange(_, _, _)
JsonEscapeRange(s, lo, hi) ==
    IF lo > hi THEN <<>>
    ELSE IF lo = hi THEN JsonEscapeChar(s[lo])
    ELSE LET mid == (lo + hi) \div 2
         IN  JsonEscapeRange(s, lo, mid) \o JsonEscapeRange(s, mid + 1, hi)

JsonEscape(s) ==
    JsonEscapeRange(s, 1, Len(s))

JsonValue(val) ==
    CASE val.t = "str" -> <<"\"">> \o JsonEscape(val.v) \o <<"\"">>
      [] val.t = "num" -> val.v
      [] OTHER -> <<"n", "u", "l", "l">>

RECURSIVE JsonItems(_)
JsonItems(d) ==
    IF d = <<>> THEN <<>>
    ELSE <<(<<"\"">> \o JsonEscape(d[1].k) \o <<"\"", ":", " ">> \o JsonValue(d[1].v))>>
         \o JsonItems(Tail(d))

\* json.dumps(d) for a dict d
JsonDumps(d) ==
    <<"{">> \o Join(<<",", " ">>, JsonItems(d)) \o <<"}">>

(***************************************************************************)
(* Commands: the fixed ones of the source and the ones the model draws as  *)
(* inputs.                                                                 *)
(***************************************************************************)

Cmd(action, reasoning, confidence, thrust) ==
    <<[k |-> K_action, v |-> action],
      [k |-> K_reasoning, v |-> reasoning],
      [k |-> K_confidence_score, v |-> confidence],
      [k |-> K_recommended_thrust_direction, v |-> thrust]>>

\* A default whose reasoning text names a deny-listed token.
SAFETY_FALLBACK_naming_token ==
    Cmd(JStr(T_HOLD_POSITION), JStr(KW_DESTRUCT), JNum(N_0_0), JStr(T_NONE))

SAFETY_FALLBACK ==
    Cmd(JStr(T_HOLD_POSITION), JStr(T_AI_ERROR_FALLBACK), JNum(N_0_0), JStr(T_NONE))

\* An injected command whose reasoning names no deny-listed token.
_MALICIOUS_INJECTED_COMMAND_unnamed ==
    <<[k |-> K_action, v |-> JStr(T_FIRE_THRUSTERS)],
      [k |-> K_reasoning, v |-> JStr(R_high_risk)],
      [k |-> K_recommended_thrust_direction, v |-> JStr(T_TOWARD_DEBRIS)],
      [k |-> K_confidence_score, v |-> JNum(N_0_99)]>>

\* main.py: the command injected on attempt 1 when simulate_cyberattack is set.
_MALICIOUS_INJECTED_COMMAND ==
    <<[k |-> K_action, v |-> JStr(T_FIRE_THRUSTERS)],
      [k |-> K_reasoning, v |-> JStr(T_MALICIOUS_REASONING)],
      [k |-> K_recommended_thrust_direction, v |-> JStr(T_TOWARD_DEBRIS)],
      [k |-> K_confidence_score, v |-> JNum(N_0_99)]>>

\* Inputs: decisions the model returns as a JSON object.
D_FIRE == Cmd(JStr(T_FIRE_THRUSTERS), JStr(R_high_risk), JNum(N_0_92), JStr(T_PROGRADE))
D_SELF == Cmd(JStr(KW_SELF_DESTRUCT), JStr(R_critical_failure), JNum(N_0_99), JStr(T_NONE))
D_LOWER == Cmd(JStr(T_HOLD_POSITION), JStr(R_lower_deorbit), JNum(N_0_5), JStr(T_RETROGRADE))
D_NO_REASONING ==
    <<[k |-> K_action, v |-> JStr(T_FIRE_THRUSTERS)],
      [k |-> K_confidence_score, v |-> JNum(N_0_92)],
      [k |-> K_recommended_thrust_direction, v |-> JStr(T_PROGRADE)]>>


\* Inputs of the validator run on its own: every pairing of an action and a
\* reasoning, and commands that carry an extra key.
HarnessActions ==
    {T_FIRE_THRUSTERS, T_HOLD_POSITION, KW_SELF_DESTRUCT, T_De_Orbit, T_deorbit}

HarnessReasonings ==
    {R_high_risk, R_lower_deorbit, R_attack, R_quote, T_Weaponize}

HarnessCommands ==
    {Cmd(JStr(a), JStr(r), JNum(N_0_92), JStr(T_NONE)) :
        a \in HarnessActions, r \in HarnessReasonings}
    \cup {Append(D_FIRE, [k |-> K_attack_mode, v |-> JStr(T_on)]),
          Append(D_FIRE, [k |-> T_on, v |-> None])}

\* Every command validate_command is given in the model.
KnownCommands ==
    {SAFETY_FALLBACK, _MALICIOUS_INJECTED_COMMAND, D_FIRE, D_SELF, D_LOWER}
    \cup HarnessCommands

(***************************************************************************)
(* security.py: the deny-list, validate_command, format_rejection_message. *)
(***************************************************************************)

BLOCKED_KEYWORDS ==
    {KW_SELF_DESTRUCT, KW_DE_ORBIT_HYPHEN, KW_DE_ORBIT, KW_DEORBIT,
     KW_DESTRUCT, KW_WEAPONIZE, KW_ATTACK, KW_DISABLE_SHIELD}

\* A scan of the serialized command as written, without upper-casing it.
upper_command_as_written(command_json) ==
    JsonDumps(command_json)

\* The text the deny-list scans: command_str.upper().
upper_command(command_json) ==
    Upper(JsonDumps(command_json))

\* A scan that reports only the longest matches: a token that lies within
\* another matched token is left out.
scan_violations_longest(command_json) ==
    LET u == upper_command(command_json)
        found == {kw \in BLOCKED_KEYWORDS : Contains(u, kw)}
    IN  {kw \in found : \A other \in found \ {kw} : ~Contains(other, kw)}

\* [kw for kw in BLOCKED_KEYWORDS if kw in upper_command], scanning the text.
scan_violations(command_json) ==
    LET u == upper_command(command_json)
    IN  {kw \in BLOCKED_KEYWORDS : Contains(u, kw)}

\* The scan of every command the model's inputs can produce, evaluated once.
ScanTable ==
    [c \in KnownCommands |-> scan_violations(c)]

\* local_violations in validate_command: the scan (looked up when already done).
local_violations(command_json) ==
    IF command_json \in KnownCommands
    THEN ScanTable[command_json]
    ELSE scan_violations(command_json)

\* The tags parsed from a reply that starts with UNSAFE.
unsafe_tags(reply) ==
    LET parts == SplitWs1(reply)
        raw == IF Len(parts) > 1 THEN SplitComma(parts[2]) ELSE <<>>
        kept == SelectSeq(raw, LAMBDA t : Strip(t) # <<>>)
    IN  IF Len(parts) > 1
        THEN [i \in 1..Len(kept) |-> Strip(kept[i])]
        ELSE <<T_POLICY_VIOLATION>>

\* A report that always defaults an empty tag list to POLICY_VIOLATION.
ValidationReport_default_tag(valid, session_id, timestamp, source, tags, command_json) ==
    [valid |-> valid, session_id |-> session_id, timestamp |-> timestamp,
     source |-> source,
     violation_tags |-> IF tags = <<>> THEN <<T_POLICY_VIOLATION>> ELSE tags,
     original_command |-> command_json]

\* The dict literals validate_command returns.
ValidationReport(valid, session_id, timestamp, source, tags, command_json) ==
    [valid |-> valid, session_id |-> session_id, timestamp |-> timestamp,
     source |-> source, violation_tags |-> tags, original_command |-> command_json]

\* A fallback that fails closed.
fallback_report_fail_closed(command_json, session_id, timestamp) ==
    ValidationReport(FALSE, session_id, timestamp, "fallback",
                     <<T_POLICY_VIOLATION>>, command_json)

\* Tier 3: no remote client, or the remote call raised.
fallback_report(command_json, session_id, timestamp) ==
    ValidationReport(TRUE, session_id, timestamp, "fallback", <<>>, command_json)

\* A run that asks the remote tier before it looks at the deny-list.
validate_run_remote_first(command_json, session_id, timestamp, client_set, remote) ==
    LET hits == local_violations(command_json)
        reply == Upper(Strip(remote.content))
    IN  IF client_set /\ remote.kind = "content"
        THEN [report |->
                 IF StartsWith(reply, T_UNSAFE)
                 THEN ValidationReport(FALSE, session_id, timestamp,
                          "white_circle", unsafe_tags(reply), command_json)
                 ELSE ValidationReport(TRUE, session_id, timestamp,
                          "white_circle", <<>>, command_json),
              remote_called |-> TRUE]
        ELSE IF hits # {}
        THEN [report |-> ValidationReport(FALSE, session_id, timestamp,
                             "local_deny_list", SortedSeq(hits), command_json),
              remote_called |-> client_set]
        ELSE [report |-> fallback_report(command_json, session_id, timestamp),
              remote_called |-> client_set]

\* One run of validate_command.  `client` is whether the module built a remote
\* client (WHITE_CIRCLE_API_KEY set); `remote` is what the remote call does if
\* it is made: [kind |-> "raise"] (transport error or timeout),
\* [kind |-> "no_content"] (message.content is None, so .strip() raises),
\* [kind |-> "check_result", ...] (a body with a flagged verdict and policies
\* but no choices, so response.choices[0] raises) or
\* [kind |-> "content", content |-> text].  Returns the report and whether the
\* remote call was made.
validate_run(command_json, session_id, timestamp, client_set, remote) ==
    LET hits == local_violations(command_json)
        reply == Upper(Strip(remote.content))
    IN  IF hits # {}
        THEN [report |-> ValidationReport(FALSE, session_id, timestamp,
                             "local_deny_list", SortedSeq(hits), command_json),
              remote_called |-> FALSE]
        ELSE IF client_set /\ remote.kind = "content"
        THEN [report |->
                 IF StartsWith(reply, T_UNSAFE)
                 THEN ValidationReport(FALSE, session_id, timestamp,
                          "white_circle", unsafe_tags(reply), command_json)
                 ELSE ValidationReport(TRUE, session_id, timestamp,
                          "white_circle", <<>>, command_json),
              remote_called |-> TRUE]
        ELSE [report |-> fallback_report(command_json, session_id, timestamp),
              remote_called |-> client_set]

validate_command(command_json, session_id, timestamp, client_set, remote) ==
    validate_run(command_json, session_id, timestamp, client_set, remote).report

format_rejection_message(violation_tags) ==
    LET tags_str == IF violation_tags # <<>>
                    THEN Join(<<",", " ">>, violation_tags)
                    ELSE T_UNKNOWN
    IN  T_ALERT_HEAD \o tags_str \o T_ALERT_TAIL

(***************************************************************************)
(* commander.py: the proposer.                                             *)
(***************************************************************************)

required_keys ==
    {K_action, K_reasoning, K_confidence_score, K_recommended_thrust_direction}

\* A risk report is a function from some of its keys to values: d.get(k, default).
RGet(d, key, default) ==
    IF key \in DOMAIN d THEN d[key] ELSE default

\* The user prompt sent to the model: the telemetry fields read from the risk
\* report, the optical description, and the text appended when a rejection
\* reason is passed (empty when none is).
user_prompt(risk_data, previous_rejection_reason) ==
    [altitude |-> RGet(risk_data, "altitude_km", "N/A"),
     probability |-> RGet(risk_data, "collision_probability", "N/A"),
     status |-> RGet(risk_data, "status", "N/A"),
     visual |-> "No visual data.",
     update |-> IF previous_rejection_reason # None /\ previous_rejection_reason # <<>>
                THEN T_UPDATE_HEAD \o previous_rejection_reason \o T_UPDATE_TAIL
                ELSE <<>>]

\* An analyze_situation that returns any JSON object the model produced.
analyze_situation_unchecked(risk_data, previous_rejection_reason, llm) ==
    IF llm.kind = "object" THEN llm.value ELSE SAFETY_FALLBACK

\* analyze_situation, given what the model call and json.loads produce:
\* [kind |-> "api_error"] (both call paths raise), [kind |-> "bad_json"]
\* (json.loads raises), [kind |-> "non_object"] (a JSON value with no .keys())
\* or [kind |-> "object", value |-> d].
analyze_situation(risk_data, previous_rejection_reason, llm) ==
    IF llm.kind = "object"
    THEN IF \A key \in required_keys : HasKey(llm.value, key)
         THEN llm.value
         ELSE SAFETY_FALLBACK
    ELSE SAFETY_FALLBACK

(***************************************************************************)
(* state_manager.py: the spacecraft state store.  A state is a function    *)
(* from its keys to values; numbers are integers (degrees, km, m/s).  The  *)
(* state file holds [kind |-> "absent"] or [kind |-> "json", value |-> d]. *)
(***************************************************************************)

DEFAULT_STATE ==
    [position |-> [lat |-> 0, lon |-> 0, alt_km |-> 400],
     velocity |-> [x |-> 0, y |-> 7800, z |-> 0],
     original_trajectory |-> None,
     last_maneuver |-> None,
     maneuver_history |-> <<>>,
     updated_at |-> None]

\* Python truthiness of a value that is None or a non-empty dict.
Truthy(v) ==
    v # None

\* data.setdefault(key, default)
SetDefault(d, key, default) ==
    IF key \in DOMAIN d THEN d ELSE d @@ (key :> default)

\* _now_iso(): the time as ISO-8601 text, a JSON string.
now_iso(now) ==
    [iso |-> now]

\* The outcome of a call that raises.
Raised(exception) ==
    [raised |-> exception]

\* load_state, given what the file holds: [kind |-> "absent"]; [kind |->
\* "json", value |-> d], a JSON object; "unreadable" (read_text raises
\* OSError); "invalid_json" (text that json.loads rejects, an empty or cut-off
\* file included); "non_object" (JSON that is not an object); "undecodable"
\* (bytes that are not UTF-8: read_text raises UnicodeDecodeError, a
\* ValueError that the except clause does not name).
load_state(file, now) ==
    IF file.kind = "absent"
    THEN [DEFAULT_STATE EXCEPT !.updated_at = now_iso(now)]
    ELSE IF file.kind = "json"
    THEN SetDefault(SetDefault(SetDefault(SetDefault(SetDefault(file.value,
             "maneuver_history", <<>>),
             "original_trajectory", None),
             "last_maneuver", None),
             "position", DEFAULT_STATE.position),
             "velocity", DEFAULT_STATE.velocity)
    ELSE IF file.kind = "undecodable"
    THEN Raised("UnicodeDecodeError")
    ELSE DEFAULT_STATE

\* A save_state that leaves the baseline out of what it writes.
save_state_dropping_baseline(state, now) ==
    [kind |-> "json",
     value |-> [state EXCEPT !.updated_at = now_iso(now), !.original_trajectory = None]]

\* The file content save_state writes.
save_state(state, now) ==
    [kind |-> "json", value |-> [state EXCEPT !.updated_at = now_iso(now)]]

\* A save_state that catches the OSError of a failed write.
save_state_run_swallowing(file, state, now, mode) ==
    [file |-> IF mode = "ok" THEN save_state(state, now)
              ELSE IF mode = "open_fails" THEN file
              ELSE [kind |-> "invalid_json"],
     raised |-> FALSE]

\* One run of save_state: the file afterwards and whether the call raised.
\* write_text opens the file for writing, which truncates it, and writes the
\* text; nothing in save_state or set_state catches the OSError of either.
save_state_run(file, state, now, mode) ==
    [file |-> IF mode = "ok" THEN save_state(state, now)
              ELSE IF mode = "open_fails" THEN file
              ELSE [kind |-> "invalid_json"],
     raised |-> mode # "ok"]

\* A capture that overwrites original_trajectory on every call.
captured_original_every_call(current_state, now) ==
    [position |-> current_state.position,
     velocity |-> current_state.velocity,
     timestamp |-> now]

\* state["original_trajectory"] after the capture step of apply_maneuver.
captured_original(current_state, now) ==
    IF ~Truthy(current_state.original_trajectory)
    THEN [position |-> current_state.position,
          velocity |-> current_state.velocity,
          timestamp |-> now]
    ELSE current_state.original_trajectory

\* A record that reads the thrust direction under the key the record itself uses.
maneuver_record_own_key(final_command, now) ==
    [timestamp |-> now,
     reason |-> "collision_avoidance",
     action |-> Get(final_command, K_action),
     thrust_direction |-> Get(final_command, K_thrust_direction),
     confidence |-> Get(final_command, K_confidence_score)]

\* state["last_maneuver"] as apply_maneuver builds it.
maneuver_record(final_command, now) ==
    [timestamp |-> now,
     reason |-> "collision_avoidance",
     action |-> Get(final_command, K_action),
     thrust_direction |-> Get(final_command, K_recommended_thrust_direction),
     confidence |-> Get(final_command, K_confidence_score)]

\* An apply_maneuver that takes the reported position only when the report
\* holds all three fields, and keeps the whole prior position otherwise.
apply_maneuver_whole_position(current_state, risk_data, final_command, now) ==
    LET complete == {"latitude", "longitude", "altitude_km"} \subseteq DOMAIN risk_data
        maneuver == maneuver_record(final_command, now)
    IN  [current_state EXCEPT
            !.original_trajectory = captured_original(current_state, now),
            !.position = IF complete
                         THEN [lat |-> risk_data["latitude"],
                               lon |-> risk_data["longitude"],
                               alt_km |-> risk_data["altitude_km"]]
                         ELSE current_state.position,
            !.last_maneuver = maneuver,
            !.maneuver_history = Append(current_state.maneuver_history, maneuver)]

\* An apply_maneuver that keeps only the newest maneuver in the history.
apply_maneuver_history_replaced(current_state, risk_data, final_command, now) ==
    LET lat == RGet(risk_data, "latitude", RGet(current_state.position, "lat", 0))
        lon == RGet(risk_data, "longitude", RGet(current_state.position, "lon", 0))
        alt == RGet(risk_data, "altitude_km", RGet(current_state.position, "alt_km", 400))
        maneuver == maneuver_record(final_command, now)
    IN  [current_state EXCEPT
            !.original_trajectory = captured_original(current_state, now),
            !.position = [lat |-> lat, lon |-> lon, alt_km |-> alt],
            !.last_maneuver = maneuver,
            !.maneuver_history = <<maneuver>>]

apply_maneuver(current_state, risk_data, final_command, now) ==
    LET lat == RGet(risk_data, "latitude", RGet(current_state.position, "lat", 0))
        lon == RGet(risk_data, "longitude", RGet(current_state.position, "lon", 0))
        alt == RGet(risk_data, "altitude_km", RGet(current_state.position, "alt_km", 400))
        maneuver == maneuver_record(final_command, now)
    IN  [current_state EXCEPT
            !.original_trajectory = captured_original(current_state, now),
            !.position = [lat |-> lat, lon |-> lon, alt_km |-> alt],
            !.last_maneuver = maneuver,
            !.maneuver_history = Append(current_state.maneuver_history, maneuver)]

\* A restore that stamps last_maneuver even when there is no baseline.
restore_original_trajectory_always_stamps(current_state, now) ==
    LET orig == current_state.original_trajectory
        stamp == [timestamp |-> now,
                  reason |-> "trajectory_restoration",
                  action |-> JStr(T_HOLD_POSITION)]
    IN  IF ~Truthy(orig)
        THEN <<[current_state EXCEPT !.last_maneuver = stamp], FALSE>>
        ELSE <<[current_state EXCEPT
                   !.position = RGet(orig, "position", current_state.position),
                   !.velocity = RGet(orig, "velocity", current_state.velocity),
                   !.original_trajectory = None,
                   !.last_maneuver = stamp],
                TRUE>>

\* A restore that also appends its record to the history.
restore_original_trajectory_appending(current_state, now) ==
    LET orig == current_state.original_trajectory
        stamp == [timestamp |-> now,
                  reason |-> "trajectory_restoration",
                  action |-> JStr(T_HOLD_POSITION)]
    IN  IF ~Truthy(orig)
        THEN <<current_state, FALSE>>
        ELSE <<[current_state EXCEPT
                   !.position = RGet(orig, "position", current_state.position),
                   !.velocity = RGet(orig, "velocity", current_state.velocity),
                   !.original_trajectory = None,
                   !.last_maneuver = stamp,
                   !.maneuver_history = Append(@, stamp)],
                TRUE>>

\* A restore that brings back the velocity and leaves the position.
restore_original_trajectory_velocity_only(current_state, now) ==
    LET orig == current_state.original_trajectory
    IN  IF ~Truthy(orig)
        THEN <<current_state, FALSE>>
        ELSE <<[current_state EXCEPT
                   !.velocity = RGet(orig, "velocity", current_state.velocity),
                   !.original_trajectory = None,
                   !.last_maneuver = [timestamp |-> now,
                                      reason |-> "trajectory_restoration",
                                      action |-> JStr(T_HOLD_POSITION)]],
                TRUE>>

\* A restore that leaves the baseline in place.
restore_original_trajectory_keeps_baseline(current_state, now) ==
    LET orig == current_state.original_trajectory
    IN  IF ~Truthy(orig)
        THEN <<current_state, FALSE>>
        ELSE <<[current_state EXCEPT
                   !.position = RGet(orig, "position", current_state.position),
                   !.velocity = RGet(orig, "velocity", current_state.velocity),
                   !.last_maneuver = [timestamp |-> now,
                                      reason |-> "trajectory_restoration",
                                      action |-> JStr(T_HOLD_POSITION)]],
                TRUE>>

\* Returns <<updated_state, restored>>.
restore_original_trajectory(current_state, now) ==
    LET orig == current_state.original_trajectory
    IN  IF ~Truthy(orig)
        THEN <<current_state, FALSE>>
        ELSE <<[current_state EXCEPT
                   !.position = RGet(orig, "position", current_state.position),
                   !.velocity = RGet(orig, "velocity", current_state.velocity),
                   !.original_trajectory = None,
                   !.last_maneuver = [timestamp |-> now,
                                      reason |-> "trajectory_restoration",
                                      action |-> JStr(T_HOLD_POSITION)]],
                TRUE>>

(***************************************************************************)
(* main.py: configuration, the /act decision loop and the /restore         *)
(* endpoint.  The event loop runs a handler without interruption between   *)
(* two awaits, so an action is the code from one await to the next.        *)
(***************************************************************************)

\* Bounds of the model.
MaxRetriesCfg == 3
MaxRestores == 1

\* A session is one invocation of /act, named by its session id.
Sessions == {"s1"}

\* The sessions that run side by side when requests overlap.
AllSessions == {"s1", "s2"}

\* What writing the state file does: it succeeds, open() raises OSError and
\* the file is left as it was, or write() raises OSError after open() has
\* truncated the file.
DiskModes == {"ok", "open_fails", "write_fails"}

\* The values MAX_RETRIES = int(os.getenv("MAX_RETRIES", "3")) is given.
RetryConfigs == 0..MaxRetriesCfg

\* Inputs: risk reports (collision_probability in percent).
RiskReports ==
    {[latitude |-> 10, longitude |-> 20, altitude_km |-> 410,
      collision_probability |-> 95, status |-> "CRITICAL"],
     [latitude |-> 30, status |-> "WARNING"]}

\* Inputs: what the model call and json.loads produce.
LLMOutcomes ==
    {[kind |-> "api_error"], [kind |-> "bad_json"], [kind |-> "non_object"]}
    \cup {[kind |-> "object", value |-> d] : d \in {D_FIRE, D_SELF, D_NO_REASONING}}

\* Inputs: what the remote guard-rail call does.
RemoteOutcomes ==
    {[kind |-> "raise"], [kind |-> "no_content"]}
    \cup {[kind |-> "content", content |-> c] :
             c \in {REPLY_SAFE, REPLY_unsafe_tags, REPLY_UNSAFE_empty}}

\* Inputs of the validator run on its own.
\* Inputs: answers of a content-check service, which carry a flagged verdict
\* and the policies evaluated instead of a chat completion.
HarnessPolicies ==
    {<<>>,
     <<[name |-> <<"p","i","i">>, flagged |-> TRUE, flagged_source |-> <<<<"i","n">>>>],
       [name |-> <<"h","a","r","m">>, flagged |-> FALSE, flagged_source |-> <<>>],
       [name |-> <<"o","p","s">>, flagged |-> TRUE, flagged_source |-> <<>>]>>}

HarnessCheckResults ==
    {[kind |-> "check_result",
      flagged |-> \E i \in 1..Len(p) : p[i].flagged,
      policies |-> p] : p \in HarnessPolicies}

HarnessRemoteOutcomes ==
    RemoteOutcomes
    \cup {[kind |-> "content", content |-> c] : c \in {REPLY_UNSAFE_bare, REPLY_other}}
    \cup HarnessCheckResults

Unbound == [t |-> "unbound"]

VARIABLES
    client,                 \* security.client is not None
    MAX_RETRIES,            \* main.MAX_RETRIES
    STATE_PERSISTENCE,      \* os.getenv("STATE_PERSISTENCE", "enabled").lower() == "enabled"
    state,                  \* state_manager._state
    state_file,             \* the content of spacecraft_state.json
    events,                 \* the lines of agent_events.jsonl
    clock,                  \* the time _now_iso() reads
    pc,                     \* per session: "idle", "proposing", "validating", "done"
    req,                    \* per session: the ManeuverRequest
    attempt,                \* per session: the loop variable
    rejection_reason,       \* per session
    attempts_log,           \* per session
    ai_response,            \* per session
    cyberattack_demo_used,  \* per session
    resp,                   \* per session: the response of the handler
    calls,                  \* per session: the external calls made, in order
    n_restore,              \* /restore requests served so far
    restore_resp,           \* the response of the last /restore
    vh,                     \* the validator run on its own (security.py __main__)
    sh,                     \* the state transforms run on their own
    disk,                   \* what writing the state file does (a DiskModes value)
    fh,                     \* load_state and save_state run on their own, in threads
    lh,                     \* record_event and _load_events run on their own, in threads
    hh                      \* the state transforms run on objects: heap, singleton, file

config == <<client, MAX_RETRIES, STATE_PERSISTENCE, disk>>
store == <<state, state_file>>
locals == <<req, attempt, rejection_reason, attempts_log, ai_response, cyberattack_demo_used>>
vars == <<client, MAX_RETRIES, STATE_PERSISTENCE, state, state_file, events, clock,
          pc, req, attempt, rejection_reason, attempts_log, ai_response,
          cyberattack_demo_used, resp, calls, n_restore, restore_resp, vh, sh,
          disk, fh, lh, hh>>

\* record_event("act", {...}): the line appended (latency_ms is not modelled).
ActEvent(now, session_id, status, attempts, risk_data, log) ==
    [timestamp |-> now,
     event_type |-> "act",
     payload |-> [session_id |-> session_id,
                  status |-> status,
                  attempts |-> attempts,
                  risk_status |-> RGet(risk_data, "status", None),
                  risk_probability |-> RGet(risk_data, "collision_probability", None),
                  attempts_log |-> log]]

\* A proposer call that never passes the rejection context on.
ProposerCall_no_feedback(k, risk_data, reason) ==
    [fn |-> "analyze_situation", attempt |-> k, risk_data |-> risk_data,
     previous_rejection_reason |-> None]

\* The arguments of one commander.analyze_situation call (main.py 362-366).
ProposerCall(k, risk_data, reason) ==
    [fn |-> "analyze_situation", attempt |-> k, risk_data |-> risk_data,
     previous_rejection_reason |-> reason]

\* A validator call issued for the attempt after the one just proposed.
ValidatorCall_ahead(k) ==
    [fn |-> "validate_command", attempt |-> k + 1]

ValidatorCall(k) ==
    [fn |-> "validate_command", attempt |-> k]

\* An override response that reports the first proposal of the session.
OverrideResponse_first(s, last, log, demo) ==
    IF last = Unbound
    THEN [status |-> "ERROR", error |-> "UnboundLocalError"]
    ELSE [status |-> "MANUAL_OVERRIDE_REQUIRED",
          session_id |-> s,
          last_blocked_command |-> log[1].command,
          attempts |-> MAX_RETRIES,
          attempts_log |-> log,
          cyberattack_demo |-> demo]

\* What the client gets when the handler raises: HTTP 500.
HandlerError(exception) ==
    [status |-> "ERROR", error |-> exception]

\* The response built after the loop (main.py 443-476).  With no attempt made,
\* ai_response is unbound and building it raises UnboundLocalError: the
\* handler fails (HTTP 500) after the event was recorded.
OverrideResponse(s, last, log, demo) ==
    IF last = Unbound
    THEN HandlerError("UnboundLocalError")
    ELSE [status |-> "MANUAL_OVERRIDE_REQUIRED",
          session_id |-> s,
          last_blocked_command |-> last,
          attempts |-> MAX_RETRIES,
          attempts_log |-> log,
          cyberattack_demo |-> demo]

\* An executed response that reports the configured maximum as the attempt count.
ExecutedResponse_max(s, final, k, log, demo) ==
    [status |-> "EXECUTED",
     session_id |-> s,
     final_command |-> final,
     attempts |-> MAX_RETRIES,
     attempts_log |-> log,
     state_saved |-> STATE_PERSISTENCE,
     cyberattack_demo |-> demo]

\* The response of an accepted attempt (main.py 418-432).
ExecutedResponse(s, final, k, log, demo) ==
    [status |-> "EXECUTED",
     session_id |-> s,
     final_command |-> final,
     attempts |-> k,
     attempts_log |-> log,
     state_saved |-> STATE_PERSISTENCE,
     cyberattack_demo |-> demo]

\* An attempt record numbered from zero.
AttemptRecord_zero_based(k, command, validation) ==
    [attempt |-> k - 1,
     command |-> command,
     validation |-> [valid |-> validation.valid,
                     source |-> validation.source,
                     violation_tags |-> validation.violation_tags]]

AttemptRecord(k, command, validation) ==
    [attempt |-> k,
     command |-> command,
     validation |-> [valid |-> validation.valid,
                     source |-> validation.source,
                     violation_tags |-> validation.violation_tags]]

InitConfig ==
    /\ client \in BOOLEAN
    /\ MAX_RETRIES \in RetryConfigs
    /\ STATE_PERSISTENCE \in BOOLEAN
    /\ disk = "ok"

\* The state file a process finds at start: none, or the one an earlier run
\* left after one executed maneuver.
PriorFiles ==
    {[kind |-> "absent"],
     save_state(apply_maneuver(load_state([kind |-> "absent"], 0),
                               [latitude |-> 5, longitude |-> 6, altitude_km |-> 405],
                               D_FIRE, 0), 0)}

\* After import and the startup hook: set_state(load_state(), persist=False).
InitStore ==
    /\ state_file \in PriorFiles
    /\ state = load_state(state_file, 1)
    /\ events = <<>>
    /\ clock = 2

InitSessions ==
    /\ pc = [s \in AllSessions |-> "idle"]
    /\ req = [s \in AllSessions |-> None]
    /\ attempt = [s \in AllSessions |-> 0]
    /\ rejection_reason = [s \in AllSessions |-> None]
    /\ attempts_log = [s \in AllSessions |-> <<>>]
    /\ ai_response = [s \in AllSessions |-> Unbound]
    /\ cyberattack_demo_used = [s \in AllSessions |-> FALSE]
    /\ resp = [s \in AllSessions |-> None]
    /\ calls = [s \in AllSessions |-> <<>>]
    /\ n_restore = 0
    /\ restore_resp = None

Init ==
    /\ InitConfig
    /\ InitStore
    /\ InitSessions
    /\ vh = None
    /\ sh = None
    /\ fh = None
    /\ lh = None
    /\ hh = None

\* POST /act arrives: main.py 344-366, up to the first await.
act_on_risk_with(s, reports, flags) ==
    /\ pc[s] = "idle"
    /\ \E risk_data \in reports, simulate_cyberattack \in flags :
        /\ req' = [req EXCEPT ![s] = [risk_data |-> risk_data, session_id |-> s,
                                       simulate_cyberattack |-> simulate_cyberattack]]
        /\ rejection_reason' = [rejection_reason EXCEPT ![s] = None]
        /\ attempts_log' = [attempts_log EXCEPT ![s] = <<>>]
        /\ IF MAX_RETRIES < 1
           THEN /\ events' = Append(events, ActEvent(clock, s, "MANUAL_OVERRIDE_REQUIRED",
                                                     MAX_RETRIES, risk_data, <<>>))
                /\ clock' = clock + 1
                /\ resp' = [resp EXCEPT ![s] = OverrideResponse(s, Unbound, <<>>, FALSE)]
                /\ pc' = [pc EXCEPT ![s] = "done"]
                /\ attempt' = [attempt EXCEPT ![s] = 0]
                /\ ai_response' = [ai_response EXCEPT ![s] = Unbound]
                /\ cyberattack_demo_used' = [cyberattack_demo_used EXCEPT ![s] = FALSE]
                /\ calls' = [calls EXCEPT ![s] = <<>>]
           ELSE /\ attempt' = [attempt EXCEPT ![s] = 1]
                /\ resp' = [resp EXCEPT ![s] = None]
                /\ UNCHANGED <<events, clock, hh>>
                /\ IF simulate_cyberattack
                   THEN /\ ai_response' = [ai_response EXCEPT ![s] = _MALICIOUS_INJECTED_COMMAND]
                        /\ cyberattack_demo_used' = [cyberattack_demo_used EXCEPT ![s] = TRUE]
                        /\ calls' = [calls EXCEPT ![s] = <<ValidatorCall(1)>>]
                        /\ pc' = [pc EXCEPT ![s] = "validating"]
                   ELSE /\ ai_response' = [ai_response EXCEPT ![s] = Unbound]
                        /\ cyberattack_demo_used' = [cyberattack_demo_used EXCEPT ![s] = FALSE]
                        /\ calls' = [calls EXCEPT ![s] = <<ProposerCall(1, risk_data, None)>>]
                        /\ pc' = [pc EXCEPT ![s] = "proposing"]
    /\ UNCHANGED <<config, store, n_restore, restore_resp, vh, sh, fh, lh, hh>>

act_on_risk(s) ==
    act_on_risk_with(s, RiskReports, BOOLEAN)

\* commander.analyze_situation returns: main.py 362-371, up to the next await.
proposer_returns_with(s, outcomes) ==
    /\ pc[s] = "proposing"
    /\ \E llm \in outcomes :
        LET call == calls[s][Len(calls[s])]
        IN  ai_response' = [ai_response EXCEPT ![s] =
                analyze_situation(call.risk_data, call.previous_rejection_reason, llm)]
    /\ calls' = [calls EXCEPT ![s] = Append(@, ValidatorCall(attempt[s]))]
    /\ pc' = [pc EXCEPT ![s] = "validating"]
    /\ UNCHANGED <<config, store, events, clock, req, attempt, rejection_reason,
                   attempts_log, cyberattack_demo_used, resp, n_restore,
                   restore_resp, vh, sh, fh, lh, hh>>

proposer_returns(s) ==
    proposer_returns_with(s, LLMOutcomes)

\* An accepted branch that applies the maneuver to a freshly loaded default
\* state instead of the current one.
executed_on_stale_state(s, log) ==
    LET risk_data == req[s].risk_data
        updated == apply_maneuver(load_state([kind |-> "absent"], 1), risk_data, ai_response[s], clock)
    IN  /\ events' = Append(events, ActEvent(clock, req[s].session_id, "EXECUTED",
                                             attempt[s], risk_data, log))
        /\ IF STATE_PERSISTENCE
           THEN LET w == save_state_run(state_file, updated, clock, disk)
                IN  /\ state' = updated
                    /\ state_file' = w.file
                    /\ resp' = [resp EXCEPT ![s] =
                           IF w.raised
                           THEN HandlerError("OSError")
                           ELSE ExecutedResponse(req[s].session_id, ai_response[s],
                                    attempt[s], log, cyberattack_demo_used[s])]
           ELSE /\ UNCHANGED store
                /\ resp' = [resp EXCEPT ![s] = ExecutedResponse(req[s].session_id,
                               ai_response[s], attempt[s], log, cyberattack_demo_used[s])]
        /\ pc' = [pc EXCEPT ![s] = "done"]
        /\ UNCHANGED <<attempt, rejection_reason, calls, hh>>

\* An accepted branch that does not return while retries are left: the loop
\* goes on to the next attempt.
executed_without_return(s, log) ==
    LET risk_data == req[s].risk_data
        updated == apply_maneuver(state, risk_data, ai_response[s], clock)
    IN  IF attempt[s] < MAX_RETRIES
        THEN /\ attempt' = [attempt EXCEPT ![s] = @ + 1]
             /\ calls' = [calls EXCEPT ![s] =
                    Append(@, ProposerCall(attempt[s] + 1, risk_data, rejection_reason[s]))]
             /\ pc' = [pc EXCEPT ![s] = "proposing"]
             /\ UNCHANGED <<events, resp, store, rejection_reason, hh>>
        ELSE /\ events' = Append(events, ActEvent(clock, req[s].session_id, "EXECUTED",
                                                  attempt[s], risk_data, log))
             /\ state' = updated
             /\ state_file' = save_state(updated, clock)
             /\ resp' = [resp EXCEPT ![s] = ExecutedResponse(req[s].session_id,
                            ai_response[s], attempt[s], log, cyberattack_demo_used[s])]
             /\ pc' = [pc EXCEPT ![s] = "done"]
             /\ UNCHANGED <<attempt, rejection_reason, calls, hh>>

\* main.py 394-432: the attempt was accepted.
executed(s, log) ==
    LET risk_data == req[s].risk_data
        updated == apply_maneuver(state, risk_data, ai_response[s], clock)
    IN  /\ events' = Append(events, ActEvent(clock, req[s].session_id, "EXECUTED",
                                             attempt[s], risk_data, log))
        /\ IF STATE_PERSISTENCE
           THEN LET w == save_state_run(state_file, updated, clock, disk)
                IN  /\ state' = updated
                    /\ state_file' = w.file
                    /\ resp' = [resp EXCEPT ![s] =
                           IF w.raised
                           THEN HandlerError("OSError")
                           ELSE ExecutedResponse(req[s].session_id, ai_response[s],
                                    attempt[s], log, cyberattack_demo_used[s])]
           ELSE /\ UNCHANGED store
                /\ resp' = [resp EXCEPT ![s] = ExecutedResponse(req[s].session_id,
                               ai_response[s], attempt[s], log, cyberattack_demo_used[s])]
        /\ pc' = [pc EXCEPT ![s] = "done"]
        /\ UNCHANGED <<attempt, rejection_reason, calls, hh>>

\* A rejected attempt that applies the rejected proposal to the store.
blocked_applying(s, validation, log) ==
    LET risk_data == req[s].risk_data
        reason == format_rejection_message(validation.violation_tags)
    IN  /\ rejection_reason' = [rejection_reason EXCEPT ![s] = reason]
        /\ state' = apply_maneuver(state, risk_data, ai_response[s], clock)
        /\ state_file' = save_state(state', clock)
        /\ IF attempt[s] < MAX_RETRIES
           THEN /\ attempt' = [attempt EXCEPT ![s] = @ + 1]
                /\ calls' = [calls EXCEPT ![s] =
                       Append(@, ProposerCall(attempt[s] + 1, risk_data, reason))]
                /\ pc' = [pc EXCEPT ![s] = "proposing"]
                /\ UNCHANGED <<events, resp, hh>>
           ELSE /\ events' = Append(events, ActEvent(clock, req[s].session_id,
                       "MANUAL_OVERRIDE_REQUIRED", MAX_RETRIES, risk_data, log))
                /\ resp' = [resp EXCEPT ![s] = OverrideResponse(req[s].session_id,
                       ai_response[s], log, cyberattack_demo_used[s])]
                /\ pc' = [pc EXCEPT ![s] = "done"]
                /\ UNCHANGED <<attempt, calls, hh>>

\* main.py 434-476: the attempt was rejected; the next iteration starts, or
\* the loop is exhausted.
blocked(s, validation, log) ==
    LET risk_data == req[s].risk_data
        reason == format_rejection_message(validation.violation_tags)
    IN  /\ rejection_reason' = [rejection_reason EXCEPT ![s] = reason]
        /\ UNCHANGED store
        /\ IF attempt[s] < MAX_RETRIES
           THEN /\ attempt' = [attempt EXCEPT ![s] = @ + 1]
                /\ calls' = [calls EXCEPT ![s] =
                       Append(@, ProposerCall(attempt[s] + 1, risk_data, reason))]
                /\ pc' = [pc EXCEPT ![s] = "proposing"]
                /\ UNCHANGED <<events, resp, hh>>
           ELSE /\ events' = Append(events, ActEvent(clock, req[s].session_id,
                       "MANUAL_OVERRIDE_REQUIRED", MAX_RETRIES, risk_data, log))
                /\ resp' = [resp EXCEPT ![s] = OverrideResponse(req[s].session_id,
                       ai_response[s], log, cyberattack_demo_used[s])]
                /\ pc' = [pc EXCEPT ![s] = "done"]
                /\ UNCHANGED <<attempt, calls, hh>>

\* security.validate_command returns: main.py 369-476, up to the next await or
\* the return.
validator_returns_with(s, remotes) ==
    /\ pc[s] = "validating"
    /\ \E remote \in remotes :
        LET validation == validate_command(ai_response[s], req[s].session_id, clock,
                                           client, remote)
            log == Append(attempts_log[s],
                          AttemptRecord(attempt[s], ai_response[s], validation))
        IN  /\ attempts_log' = [attempts_log EXCEPT ![s] = log]
            /\ IF validation.valid
               THEN executed(s, log)
               ELSE blocked(s, validation, log)
    /\ clock' = clock + 1
    /\ UNCHANGED <<config, req, ai_response, cyberattack_demo_used, n_restore,
                   restore_resp, vh, sh, fh, lh, hh>>

validator_returns(s) ==
    validator_returns_with(s, RemoteOutcomes)

\* POST /restore: main.py 218-234 (no await: one step).
restore_endpoint ==
    /\ n_restore < MaxRestores
    /\ n_restore' = n_restore + 1
    /\ LET current == state
           r == restore_original_trajectory(current, clock)
           w == save_state_run(state_file, r[1], clock, disk)
       IN  IF r[2]
           THEN /\ state' = r[1]
                /\ state_file' = w.file
                /\ restore_resp' = IF w.raised
                                   THEN HandlerError("OSError")
                                   ELSE [status |-> "TRAJECTORY_RESTORED",
                                         current_state |-> r[1]]
           ELSE /\ UNCHANGED store
                /\ restore_resp' = [status |-> "NO_ORIGINAL_TRAJECTORY",
                                    current_state |-> current]
    /\ clock' = clock + 1
    /\ UNCHANGED <<config, events, pc, locals, resp, calls, vh, sh, fh, lh, hh>>

Next ==
    \/ \E s \in Sessions : act_on_risk(s)
    \/ \E s \in Sessions : proposer_returns(s)
    \/ \E s \in Sessions : validator_returns(s)
    \/ restore_endpoint

Spec == Init /\ [][Next]_vars

(***************************************************************************)
(* The validator on its own (security.py 202-249 calls validate_command    *)
(* on hand-made commands): any command, any behaviour of the remote call.  *)
(***************************************************************************)

InitV ==
    /\ client \in BOOLEAN
    /\ MAX_RETRIES = 3
    /\ STATE_PERSISTENCE = TRUE
    /\ disk = "ok"
    /\ InitStore
    /\ InitSessions
    /\ vh = None
    /\ sh = None
    /\ fh = None
    /\ lh = None
    /\ hh = None

validate_harness ==
    /\ \E command_json \in KnownCommands, remote \in HarnessRemoteOutcomes :
        vh' = [command |-> command_json,
               remote |-> remote,
               run |-> validate_run(command_json, "test", clock, client, remote)]
    /\ UNCHANGED <<config, store, events, clock, pc, locals, resp, calls, n_restore,
                   restore_resp, sh, fh, lh, hh>>

NextV ==
    validate_harness

SpecV == InitV /\ [][NextV]_vars

(***************************************************************************)
(* The state transforms on their own: sequences of apply_maneuver and      *)
(* restore_original_trajectory calls on a state value.  sh.n counts the    *)
(* apply_maneuver calls since the value last had a null                    *)
(* original_trajectory, sh.pre is the position and velocity held           *)
(* immediately before the first of them, and sh.risk is the risk report    *)
(* of the latest apply_maneuver call.                                      *)
(***************************************************************************)

MaxCalls == 4

HarnessRisks ==
    RiskReports \cup {[status |-> "CRITICAL", collision_probability |-> 95],
                      [longitude |-> 50, altitude_km |-> 420]}

HarnessStates ==
    {DEFAULT_STATE,
     [DEFAULT_STATE EXCEPT !.position = [lat |-> 1, lon |-> 2, alt_km |-> 390],
                           !.velocity = [x |-> 7700, y |-> 0, z |-> 10]]}

InitS ==
    /\ client = FALSE
    /\ MAX_RETRIES = 3
    /\ STATE_PERSISTENCE = TRUE
    /\ disk = "ok"
    /\ InitStore
    /\ InitSessions
    /\ vh = None
    /\ fh = None
    /\ lh = None
    /\ hh = None
    /\ \E s0 \in HarnessStates :
        sh = [cur |-> s0, n |-> 0, total |-> 0, restored |-> FALSE, risk |-> None,
              pre |-> [position |-> s0.position, velocity |-> s0.velocity]]

apply_harness ==
    /\ sh.total < MaxCalls
    /\ \E risk_data \in HarnessRisks, final_command \in {D_FIRE, SAFETY_FALLBACK} :
        sh' = [cur |-> apply_maneuver(sh.cur, risk_data, final_command, clock),
               n |-> sh.n + 1,
               total |-> sh.total + 1,
               restored |-> sh.restored,
               risk |-> risk_data,
               pre |-> IF sh.n = 0
                       THEN [position |-> sh.cur.position, velocity |-> sh.cur.velocity]
                       ELSE sh.pre]
    /\ clock' = clock + 1
    /\ UNCHANGED <<config, store, events, pc, locals, resp, calls, n_restore,
                   restore_resp, vh, fh, lh, hh>>

restore_harness ==
    /\ sh.total < MaxCalls
    /\ LET r == restore_original_trajectory(sh.cur, clock)
       IN  sh' = [cur |-> r[1],
                  n |-> 0,
                  total |-> sh.total + 1,
                  restored |-> r[2],
                  risk |-> None,
                  pre |-> [position |-> r[1].position, velocity |-> r[1].velocity]]
    /\ clock' = clock + 1
    /\ UNCHANGED <<config, store, events, pc, locals, resp, calls, n_restore,
                   restore_resp, vh, fh, lh, hh>>

NextS ==
    \/ apply_harness
    \/ restore_harness

SpecS == InitS /\ [][NextS]_vars

(***************************************************************************)
(* state_manager.py on its own: save_state and load_state called from two  *)
(* threads, and the file damaged from outside.  fh holds the file, the     *)
(* holder of _LOCK, where each call stands, what the last load returned    *)
(* (got), and the state the file currently holds from a completed          *)
(* save_state (saved; None once the file is touched again).                *)
(***************************************************************************)

MaxFileOps == 3

\* Well-formed state values handed to save_state: the default, and states the
\* transforms produce from it.
FileStates ==
    LET loaded == load_state([kind |-> "absent"], 1)
        moved == apply_maneuver(loaded, [latitude |-> 5, longitude |-> 6,
                                         altitude_km |-> 405], D_FIRE, 1)
        again == apply_maneuver(moved, [latitude |-> 30, status |-> "WARNING"],
                                SAFETY_FALLBACK, 1)
    IN  {DEFAULT_STATE, loaded, moved, again,
         restore_original_trajectory(again, 1)[1]}

\* What a state file that save_state did not write can hold.
DamagedFiles ==
    {[kind |-> "absent"], [kind |-> "unreadable"], [kind |-> "invalid_json"],
     [kind |-> "non_object"], [kind |-> "undecodable"]}

\* A lock that is never waited for.
acquirable_always(lock) ==
    TRUE

\* A lock that a writer does not hold exclusively.
acquirable_among_writers(lock) ==
    lock \notin {"load", "read"}

\* `with _LOCK:` can be entered.
acquirable(lock) ==
    lock = "free"

InitF ==
    /\ client = FALSE
    /\ MAX_RETRIES = 3
    /\ STATE_PERSISTENCE = TRUE
    /\ disk \in DiskModes
    /\ InitStore
    /\ InitSessions
    /\ vh = None
    /\ sh = None
    /\ lh = None
    /\ hh = None
    /\ fh = [file |-> state_file, lock |-> "free", ops |-> 0,
             save_pc |-> "idle", save_arg |-> None, saved |-> None,
             load_pc |-> "idle", got |-> None]

\* save_state is called: the copy is stamped (state_manager.py 63-64).
save_begin ==
    /\ fh.save_pc = "idle"
    /\ fh.ops < MaxFileOps
    /\ \E s \in FileStates :
        fh' = [fh EXCEPT !.save_pc = "locking",
                         !.ops = @ + 1,
                         !.save_arg = [s |-> s, at |-> clock,
                                       content |-> save_state(s, clock)]]
    /\ clock' = clock + 1
    /\ UNCHANGED <<config, store, events, pc, locals, resp, calls, n_restore,
                   restore_resp, vh, sh, lh, hh>>

\* The lock is taken and write_text opens the file, which truncates it.
save_open ==
    /\ fh.save_pc = "locking"
    /\ acquirable(fh.lock)
    /\ fh' = IF disk = "open_fails"
             THEN [fh EXCEPT !.save_pc = "idle", !.save_arg = None]
             ELSE [fh EXCEPT !.save_pc = "writing",
                             !.lock = "save",
                             !.file = [kind |-> "invalid_json"],
                             !.saved = None]
    /\ UNCHANGED <<config, store, events, clock, pc, locals, resp, calls,
                   n_restore, restore_resp, vh, sh, lh, hh>>

\* The text is written and the lock released.
save_write ==
    /\ fh.save_pc = "writing"
    /\ fh' = IF disk = "write_fails"
             THEN [fh EXCEPT !.save_pc = "idle", !.save_arg = None, !.lock = "free"]
             ELSE [fh EXCEPT !.save_pc = "idle",
                             !.save_arg = None,
                             !.lock = "free",
                             !.file = fh.save_arg.content,
                             !.saved = [s |-> fh.save_arg.s, at |-> fh.save_arg.at]]
    /\ UNCHANGED <<config, store, events, clock, pc, locals, resp, calls,
                   n_restore, restore_resp, vh, sh, lh, hh>>

\* load_state is called: the existence test, outside the lock
\* (state_manager.py 40-44).
load_begin ==
    /\ fh.load_pc = "idle"
    /\ fh.ops < MaxFileOps
    /\ fh' = IF fh.file.kind = "absent"
             THEN [fh EXCEPT !.ops = @ + 1,
                             !.got = [value |-> load_state(fh.file, clock),
                                      kind |-> "absent",
                                      after |-> None,
                                      during_write |-> FALSE]]
             ELSE [fh EXCEPT !.ops = @ + 1, !.load_pc = "locking"]
    /\ clock' = clock + 1
    /\ UNCHANGED <<config, store, events, pc, locals, resp, calls, n_restore,
                   restore_resp, vh, sh, lh, hh>>

\* The lock is taken (state_manager.py 45).
load_lock ==
    /\ fh.load_pc = "locking"
    /\ acquirable(fh.lock)
    /\ fh' = [fh EXCEPT !.load_pc = "reading", !.lock = "load"]
    /\ UNCHANGED <<config, store, events, clock, pc, locals, resp, calls,
                   n_restore, restore_resp, vh, sh, lh, hh>>

\* The file is read and parsed, and the lock released (state_manager.py
\* 46-57).  A file deleted since the existence test makes read_text raise
\* FileNotFoundError, an OSError.
load_read ==
    /\ fh.load_pc = "reading"
    /\ LET seen == IF fh.file.kind = "absent" THEN [kind |-> "unreadable"] ELSE fh.file
       IN  fh' = [fh EXCEPT !.load_pc = "idle",
                            !.lock = "free",
                            !.got = [value |-> load_state(seen, clock),
                                     kind |-> seen.kind,
                                     after |-> fh.saved,
                                     during_write |-> fh.save_pc = "writing"]]
    /\ UNCHANGED <<config, store, events, clock, pc, locals, resp, calls,
                   n_restore, restore_resp, vh, sh, lh, hh>>

\* The environment deletes or damages the file.
damage_file ==
    /\ fh.ops < MaxFileOps
    /\ fh.save_pc # "writing"
    /\ \E f \in DamagedFiles :
        fh' = [fh EXCEPT !.file = f, !.saved = None, !.ops = @ + 1]
    /\ UNCHANGED <<config, store, events, clock, pc, locals, resp, calls,
                   n_restore, restore_resp, vh, sh, lh, hh>>

NextF ==
    \/ save_begin
    \/ save_open
    \/ save_write
    \/ load_begin
    \/ load_lock
    \/ load_read
    \/ damage_file

SpecF == InitF /\ [][NextF]_vars

(***************************************************************************)
(* The same handlers on a disk whose writes may fail: write_text raising   *)
(* OSError when it opens the state file, or after it has truncated it.     *)
(***************************************************************************)

InitW ==
    /\ client \in BOOLEAN
    /\ MAX_RETRIES \in {1, 2}
    /\ STATE_PERSISTENCE \in BOOLEAN
    /\ disk \in DiskModes
    /\ InitStore
    /\ InitSessions
    /\ vh = None
    /\ sh = None
    /\ fh = None
    /\ lh = None
    /\ hh = None

SpecW == InitW /\ [][Next]_vars

(***************************************************************************)
(* Two /act sessions and /restore on one event loop.  The handlers run     *)
(* between awaits without interruption; a session gives up the loop only   *)
(* while analyze_situation or validate_command runs in a worker thread.    *)
(***************************************************************************)

InitC ==
    /\ client = TRUE
    /\ MAX_RETRIES = 2
    /\ STATE_PERSISTENCE \in BOOLEAN
    /\ disk = "ok"
    /\ InitStore
    /\ InitSessions
    /\ vh = None
    /\ sh = None
    /\ fh = None
    /\ lh = None
    /\ hh = None

\* Inputs of the concurrent sessions: a proposal or a failed model call, a
\* remote verdict of SAFE or UNSAFE.
ConcurrentLLMOutcomes ==
    {[kind |-> "api_error"], [kind |-> "object", value |-> D_FIRE]}

ConcurrentRemoteOutcomes ==
    {[kind |-> "content", content |-> c] : c \in {REPLY_SAFE, REPLY_unsafe_tags}}

\* Each session posts its own risk report.
ConcurrentRiskReports(s) ==
    {r \in RiskReports : (s = "s1") = ("altitude_km" \in DOMAIN r)}

\* One of the sessions may be posted with simulate_cyberattack set.
ConcurrentFlags(s) ==
    IF s = "s1" THEN BOOLEAN ELSE {FALSE}

NextC ==
    \/ \E s \in AllSessions : act_on_risk_with(s, ConcurrentRiskReports(s), ConcurrentFlags(s))
    \/ \E s \in AllSessions : proposer_returns_with(s, ConcurrentLLMOutcomes)
    \/ \E s \in AllSessions : validator_returns_with(s, ConcurrentRemoteOutcomes)
    \/ restore_endpoint

SpecC == InitC /\ [][NextC]_vars

(***************************************************************************)
(* learning_engine.py: the event log and the insights read from it.  The   *)
(* file agent_events.jsonl is a sequence of pieces: record_event writes    *)
(* the line of an event as a head piece and a tail piece that ends with    *)
(* the newline (a long line reaches the file in more than one write).      *)
(***************************************************************************)

MaxAppends == 4

\* The limit _load_events is called with (800 in get_insights), scaled down.
LoadLimit == 3

\* json.dumps(event, separators=(",", ":")) + "\n", as the pieces written.
event_line(event) ==
    <<[e |-> event, part |-> "head"], [e |-> event, part |-> "tail"]>>

\* The text of the events in order, one line each.
RECURSIVE LinesOf(_)
LinesOf(evs) ==
    IF evs = <<>> THEN <<>> ELSE event_line(Head(evs)) \o LinesOf(Tail(evs))

\* str.splitlines(): the text cut after every newline; a last line without
\* newline is a line too.
RECURSIVE splitlines(_, _)
splitlines(text, line) ==
    IF text = <<>>
    THEN IF line = <<>> THEN <<>> ELSE <<line>>
    ELSE IF Head(text).part = "tail"
    THEN <<Append(line, Head(text))>> \o splitlines(Tail(text), <<>>)
    ELSE splitlines(Tail(text), Append(line, Head(text)))

\* json.loads(line) succeeds: the line is the whole text of one event.
IsJsonLine(line) ==
    /\ Len(line) = 2
    /\ line[1].part = "head"
    /\ line[2].part = "tail"
    /\ line[1].e = line[2].e

\* lines[-limit:] if limit > 0 else lines
LastLines(lines, limit) ==
    IF limit > 0 /\ Len(lines) > limit
    THEN SubSeq(lines, Len(lines) - limit + 1, Len(lines))
    ELSE lines

\* The events of the lines that parse, in order.
RECURSIVE ParsedEvents(_)
ParsedEvents(lines) ==
    IF lines = <<>> THEN <<>>
    ELSE IF IsJsonLine(Head(lines))
    THEN <<Head(lines)[1].e>> \o ParsedEvents(Tail(lines))
    ELSE ParsedEvents(Tail(lines))

\* _load_events(limit), given the text read from the file.
load_events(text, limit) ==
    ParsedEvents(LastLines(splitlines(text, <<>>), limit))

\* The number of events of a type in the window, with a given status (any
\* status when "" is asked for).
RECURSIVE CountEvents(_, _, _)
CountEvents(evs, etype, status) ==
    IF evs = <<>> THEN 0
    ELSE (IF /\ Head(evs).event_type = etype
             /\ \/ status = ""
                \/ /\ "status" \in DOMAIN Head(evs).payload
                   /\ Head(evs).payload.status = status
          THEN 1 ELSE 0)
         + CountEvents(Tail(evs), etype, status)

\* round(x * 100, 2) for x = num / den, held in hundredths (no tie occurs for
\* den below 32).
percent_rounded(num, den) ==
    (2 * 10000 * num + den) \div (2 * den)

\* A success rate reported as a fraction of one, in hundredths.
success_rate_as_fraction(successful_exec, act_count) ==
    IF act_count # 0 THEN (2 * 100 * successful_exec + act_count) \div (2 * act_count)
    ELSE 0

\* success_rate of get_insights, in hundredths.
success_rate(successful_exec, act_count) ==
    IF act_count # 0 THEN percent_rounded(successful_exec, act_count) ELSE 0

\* Counter.update([key]): one more occurrence of key.
CounterUpdate(counter, key) ==
    IF key \in DOMAIN counter
    THEN [counter EXCEPT ![key] = @ + 1]
    ELSE counter @@ (key :> 1)

\* Counter.update(keys) for a list of keys.
RECURSIVE CounterUpdateAll(_, _)
CounterUpdateAll(counter, keys) ==
    IF keys = <<>> THEN counter
    ELSE CounterUpdateAll(CounterUpdate(counter, Head(keys)), Tail(keys))

\* guard_sources.get(key, 0)
CounterGet(counter, key) ==
    IF key \in DOMAIN counter THEN counter[key] ELSE 0

\* The attempts embedded in the act events of the window, in order:
\* payload.get("attempts_log", []) of every event with event_type "act".
RECURSIVE attempts_of(_)
attempts_of(evs) ==
    IF evs = <<>> THEN <<>>
    ELSE (IF Head(evs).event_type = "act"
          THEN RGet(Head(evs).payload, "attempts_log", <<>>)
          ELSE <<>>)
         \o attempts_of(Tail(evs))

\* attempt.get("validation", {})
validation_of(entry) ==
    RGet(entry, "validation", <<>>)

\* validation.get("valid") is False
is_blocked(validation) ==
    "valid" \in DOMAIN validation /\ validation.valid = FALSE

\* A tally that counts the tags of every attempt, blocked or not.
tallied_tags_of_any(validation) ==
    LET tags == RGet(validation, "violation_tags", <<>>)
    IN  IF tags # <<>> THEN tags ELSE <<T_UNKNOWN>>

\* The keys one attempt adds to tag_counter: its tags, or UNKNOWN when it has
\* none, if it is blocked; nothing otherwise.
tallied_tags(validation) ==
    LET tags == RGet(validation, "violation_tags", <<>>)
    IN  IF is_blocked(validation)
        THEN (IF tags # <<>> THEN tags ELSE <<T_UNKNOWN>>)
        ELSE <<>>

\* The loop over the attempts of get_insights: blocked_attempts, tag_counter
\* and source_counter.
RECURSIVE tally_attempts(_, _)
tally_attempts(acc, attempts) ==
    IF attempts = <<>> THEN acc
    ELSE LET validation == validation_of(Head(attempts))
             source == RGet(validation, "source", "unknown")
         IN  tally_attempts(
                 [blocked_attempts |-> acc.blocked_attempts
                                         + (IF is_blocked(validation) THEN 1 ELSE 0),
                  tag_counter |-> CounterUpdateAll(acc.tag_counter,
                                                   tallied_tags(validation)),
                  source_counter |-> CounterUpdate(acc.source_counter, source)],
                 Tail(attempts))

\* float(payload.get("latency_ms", 0)) of the events of a type, in milliseconds.
RECURSIVE latencies_of(_, _)
latencies_of(evs, etype) ==
    IF evs = <<>> THEN <<>>
    ELSE (IF Head(evs).event_type = etype
          THEN <<RGet(Head(evs).payload, "latency_ms", 0)>>
          ELSE <<>>)
         \o latencies_of(Tail(evs), etype)

RECURSIVE SumSeq(_)
SumSeq(s) ==
    IF s = <<>> THEN 0 ELSE Head(s) + SumSeq(Tail(s))

\* round(sum(xs) / len(xs), 2) if xs else 0.0, held in hundredths.
average_rounded(xs) ==
    IF xs = <<>> THEN 0
    ELSE (2 * 100 * SumSeq(xs) + Len(xs)) \div (2 * Len(xs))

REC_DENY_LIST ==
    "Commander prompts should explicitly avoid deny-listed commands when proposing emergency maneuvers."

REC_FALLBACK ==
    "Security validation frequently uses fallback mode. Investigate White Circle availability to strengthen policy enforcement."

REC_ACT_LATENCY ==
    "Agent loop latency is elevated. Cache model/system prompt context and reduce response token budget for faster decisions."

REC_SCAN_LATENCY ==
    "Scan latency is elevated. Consider caching TLE responses for short intervals during demo bursts."

REC_STABLE ==
    "System health is stable. Continue collecting traces and expand edge-case simulations to harden autonomous behavior."

REC_NO_DATA ==
    "No runtime data yet. Run scans and maneuvers to build insights."

\* A generator that reports fallback mode also when the fallback source is
\* only as frequent as the remote source.
build_recommendations_on_tie(blocked_count, guard_sources, avg_act_ms, avg_scan_ms) ==
    LET recs ==
            (IF blocked_count > 0 THEN <<REC_DENY_LIST>> ELSE <<>>)
            \o (IF CounterGet(guard_sources, "fallback")
                     >= CounterGet(guard_sources, "white_circle")
                THEN <<REC_FALLBACK>> ELSE <<>>)
            \o (IF avg_act_ms > 3500 * 100 THEN <<REC_ACT_LATENCY>> ELSE <<>>)
            \o (IF avg_scan_ms > 1800 * 100 THEN <<REC_SCAN_LATENCY>> ELSE <<>>)
    IN  IF recs = <<>> THEN <<REC_STABLE>> ELSE recs

\* _build_recommendations; the two averages are in hundredths of a millisecond.
build_recommendations(blocked_count, guard_sources, avg_act_ms, avg_scan_ms) ==
    LET recs ==
            (IF blocked_count > 0 THEN <<REC_DENY_LIST>> ELSE <<>>)
            \o (IF CounterGet(guard_sources, "fallback")
                     > CounterGet(guard_sources, "white_circle")
                THEN <<REC_FALLBACK>> ELSE <<>>)
            \o (IF avg_act_ms > 3500 * 100 THEN <<REC_ACT_LATENCY>> ELSE <<>>)
            \o (IF avg_scan_ms > 1800 * 100 THEN <<REC_SCAN_LATENCY>> ELSE <<>>)
    IN  IF recs = <<>> THEN <<REC_STABLE>> ELSE recs

\* get_insights over the events read: the summary counts and success rate,
\* the latency averages, the two frequency tables and the recommendations
\* (scenario distribution, endpoint errors and recent events are not
\* modelled).
get_insights(evs) ==
    LET act_count == CountEvents(evs, "act", "")
        successful_exec == CountEvents(evs, "act", "EXECUTED")
        tally == tally_attempts([blocked_attempts |-> 0, tag_counter |-> <<>>,
                                 source_counter |-> <<>>],
                                attempts_of(evs))
        avg_scan_ms == average_rounded(latencies_of(evs, "scan"))
        avg_act_ms == average_rounded(latencies_of(evs, "act"))
    IN  IF evs = <<>>
        THEN [total_events |-> 0, scan_events |-> 0, act_events |-> 0,
              blocked_attempts |-> 0, execution_success_rate |-> 0,
              scan_avg |-> 0, act_avg |-> 0,
              violation_tags |-> <<>>, security_sources |-> <<>>,
              recommendations |-> <<REC_NO_DATA>>]
        ELSE [total_events |-> Len(evs),
              scan_events |-> CountEvents(evs, "scan", ""),
              act_events |-> act_count,
              blocked_attempts |-> tally.blocked_attempts,
              execution_success_rate |-> success_rate(successful_exec, act_count),
              scan_avg |-> avg_scan_ms,
              act_avg |-> avg_act_ms,
              violation_tags |-> tally.tag_counter,
              security_sources |-> tally.source_counter,
              recommendations |-> build_recommendations(tally.blocked_attempts,
                                      tally.source_counter, avg_act_ms, avg_scan_ms)]

\* The threads that call record_event, and the events they record.
Writers == {"w1", "w2"}

HarnessEvents(now) ==
    {[timestamp |-> now, event_type |-> "scan", payload |-> [status |-> "SAFE"]],
     [timestamp |-> now, event_type |-> "act", payload |-> [status |-> "EXECUTED"]],
     [timestamp |-> now, event_type |-> "act",
      payload |-> [status |-> "MANUAL_OVERRIDE_REQUIRED"]]}

InitL ==
    /\ client = FALSE
    /\ MAX_RETRIES = 3
    /\ STATE_PERSISTENCE = TRUE
    /\ disk = "ok"
    /\ state_file = [kind |-> "absent"]
    /\ state = load_state(state_file, 1)
    /\ events = <<>>
    /\ clock = 2
    /\ InitSessions
    /\ vh = None
    /\ sh = None
    /\ fh = None
    /\ lh = [file |-> <<>>, lock |-> "free", appends |-> 0, completed |-> <<>>,
             w_pc |-> [w \in Writers |-> "idle"],
             w_event |-> [w \in Writers |-> None],
             r_pc |-> "idle", got |-> None]
    /\ hh = None

\* record_event is called: the event is built and serialized
\* (learning_engine.py 39-45).
record_begin(w) ==
    /\ lh.w_pc[w] = "idle"
    /\ lh.appends < MaxAppends
    /\ \E event \in HarnessEvents(clock) :
        lh' = [lh EXCEPT !.w_pc[w] = "locking",
                         !.w_event[w] = event,
                         !.appends = @ + 1]
    /\ clock' = clock + 1
    /\ UNCHANGED <<config, store, events, pc, locals, resp, calls, n_restore,
                   restore_resp, vh, sh, fh, hh>>

\* The lock is taken and the file opened for appending.
record_open(w) ==
    /\ lh.w_pc[w] = "locking"
    /\ acquirable(lh.lock)
    /\ lh' = [lh EXCEPT !.w_pc[w] = "opened", !.lock = w]
    /\ UNCHANGED <<config, store, events, clock, pc, locals, resp, calls,
                   n_restore, restore_resp, vh, sh, fh, hh>>

\* The first part of the line reaches the file.
record_write_head(w) ==
    /\ lh.w_pc[w] = "opened"
    /\ lh' = [lh EXCEPT !.w_pc[w] = "writing",
                        !.file = Append(@, event_line(lh.w_event[w])[1])]
    /\ UNCHANGED <<config, store, events, clock, pc, locals, resp, calls,
                   n_restore, restore_resp, vh, sh, fh, hh>>

\* The rest of the line reaches the file, the file is closed and the lock
\* released: the append is complete.
record_write_tail(w) ==
    /\ lh.w_pc[w] = "writing"
    /\ lh' = [lh EXCEPT !.w_pc[w] = "idle",
                        !.w_event[w] = None,
                        !.lock = "free",
                        !.file = Append(@, event_line(lh.w_event[w])[2]),
                        !.completed = Append(@, lh.w_event[w])]
    /\ UNCHANGED <<config, store, events, clock, pc, locals, resp, calls,
                   n_restore, restore_resp, vh, sh, fh, hh>>

\* get_insights is called and waits for the lock (learning_engine.py 51-53).
load_events_begin ==
    /\ lh.r_pc = "idle"
    /\ lh' = [lh EXCEPT !.r_pc = "locking"]
    /\ UNCHANGED <<config, store, events, clock, pc, locals, resp, calls,
                   n_restore, restore_resp, vh, sh, fh, hh>>

\* The file is read under the lock, the last lines are parsed and the
\* summary is computed (learning_engine.py 53-61, 105-193).
load_events_read ==
    /\ lh.r_pc = "locking"
    /\ acquirable(lh.lock)
    /\ LET evs == load_events(lh.file, LoadLimit)
       IN  lh' = [lh EXCEPT !.r_pc = "idle",
                            !.got = [events |-> evs,
                                     seen |-> Len(lh.completed),
                                     summary |-> get_insights(evs)]]
    /\ UNCHANGED <<config, store, events, clock, pc, locals, resp, calls,
                   n_restore, restore_resp, vh, sh, fh, hh>>

NextL ==
    \/ \E w \in Writers : record_begin(w)
    \/ \E w \in Writers : record_open(w)
    \/ \E w \in Writers : record_write_head(w)
    \/ \E w \in Writers : record_write_tail(w)
    \/ load_events_begin
    \/ load_events_read

SpecL == InitL /\ [][NextL]_vars


(***************************************************************************)
(* get_insights on its own: the log holds some window of events when the   *)
(* reader is called.                                                       *)
(***************************************************************************)

MaxLogLines == 3

\* Inputs: events as /scan and /act record them, and act events whose
\* attempts lack a validation or carry tags on an accepted attempt.
InsightEvents ==
    {[timestamp |-> 1, event_type |-> "scan",
      payload |-> [status |-> "SAFE", latency_ms |-> 2000]],
     [timestamp |-> 1, event_type |-> "scan",
      payload |-> [status |-> "SAFE", latency_ms |-> 1500]],
     [timestamp |-> 1, event_type |-> "act",
      payload |-> [status |-> "EXECUTED", latency_ms |-> 4000,
                   attempts_log |->
                     <<[attempt |-> 1, command |-> D_SELF,
                        validation |-> [valid |-> FALSE, source |-> "local_deny_list",
                                        violation_tags |-> <<KW_DESTRUCT, KW_SELF_DESTRUCT>>]],
                       [attempt |-> 2, command |-> D_FIRE,
                        validation |-> [valid |-> TRUE, source |-> "fallback",
                                        violation_tags |-> <<>>]]>>]],
     [timestamp |-> 1, event_type |-> "act",
      payload |-> [status |-> "MANUAL_OVERRIDE_REQUIRED", latency_ms |-> 3000,
                   attempts_log |->
                     <<[attempt |-> 1, command |-> D_FIRE,
                        validation |-> [valid |-> FALSE, source |-> "white_circle",
                                        violation_tags |-> <<>>]],
                       [attempt |-> 2, command |-> D_FIRE,
                        validation |-> [valid |-> FALSE, source |-> "white_circle",
                                        violation_tags |-> <<T_POLICY_VIOLATION>>]]>>]],
     [timestamp |-> 1, event_type |-> "act",
      payload |-> [status |-> "EXECUTED",
                   attempts_log |->
                     <<[attempt |-> 1, command |-> D_FIRE,
                        validation |-> [valid |-> TRUE, source |-> "white_circle",
                                        violation_tags |-> <<>>]]>>]],
     [timestamp |-> 1, event_type |-> "act",
      payload |-> [status |-> "EXECUTED", latency_ms |-> 3600,
                   attempts_log |->
                     <<[attempt |-> 1, command |-> D_FIRE],
                       [attempt |-> 2, command |-> D_FIRE,
                        validation |-> [valid |-> TRUE, source |-> "fallback",
                                        violation_tags |-> <<KW_DESTRUCT>>]]>>]]}

\* The logs of at most n events.
RECURSIVE InsightLogs(_)
InsightLogs(n) ==
    IF n = 0 THEN {<<>>}
    ELSE LET shorter == InsightLogs(n - 1)
         IN  shorter \cup {Append(log, e) : log \in shorter, e \in InsightEvents}

InitI ==
    /\ client = FALSE
    /\ MAX_RETRIES = 3
    /\ STATE_PERSISTENCE = TRUE
    /\ disk = "ok"
    /\ state_file = [kind |-> "absent"]
    /\ state = load_state(state_file, 1)
    /\ events = <<>>
    /\ clock = 2
    /\ InitSessions
    /\ vh = None
    /\ sh = None
    /\ fh = None
    /\ hh = None
    /\ \E log \in InsightLogs(MaxLogLines) :
        lh = [file |-> LinesOf(log), lock |-> "free", appends |-> Len(log),
              completed |-> log,
              w_pc |-> [w \in Writers |-> "idle"],
              w_event |-> [w \in Writers |-> None],
              r_pc |-> "idle", got |-> None]

NextI ==
    \/ load_events_begin
    \/ load_events_read

SpecI == InitI /\ [][NextI]_vars

(***************************************************************************)
(* The state transforms on objects.  A Python dict or list is an object    *)
(* with an identity: the heap is the sequence of the objects created so    *)
(* far, a reference is a place in it, and 0 stands for None.  A state dict *)
(* holds references to its position, velocity, original_trajectory and     *)
(* last_maneuver dicts and to its maneuver_history list, so that a shallow *)
(* copy shares them with the dict it was copied from.  hh.state is         *)
(* state_manager._state, hh.file the state file, hh.arg and hh.ret the     *)
(* argument and the returned dict of the latest call.                      *)
(***************************************************************************)

MaxTransformCalls == 4

\* A dict of plain values.
DictObject(value) ==
    [kind |-> "dict", value |-> value]

\* A list of references.
ListObject(items) ==
    [kind |-> "list", items |-> items]

\* The dict stored under original_trajectory.
BaselineObject(position, velocity, timestamp) ==
    [kind |-> "baseline", position |-> position, velocity |-> velocity,
     timestamp |-> timestamp]

\* The module as imported: _DEFAULT_STATE with its nested dicts and list, and
\* _state as get_state() leaves it on first use with no state file,
\* _DEFAULT_STATE.copy() with updated_at set (state_manager.py 20-27, 42-45).
ImportedHeap ==
    <<DictObject(DEFAULT_STATE.position),
      DictObject(DEFAULT_STATE.velocity),
      ListObject(<<>>),
      [kind |-> "state", position |-> 1, velocity |-> 2, original_trajectory |-> 0,
       last_maneuver |-> 0, maneuver_history |-> 3, updated_at |-> None],
      [kind |-> "state", position |-> 1, velocity |-> 2, original_trajectory |-> 0,
       last_maneuver |-> 0, maneuver_history |-> 3, updated_at |-> now_iso(1)]>>

\* The value a reference to a dict of plain values stands for.
DictValue(heap, ref) ==
    IF ref = 0 THEN None ELSE heap[ref].value

\* The value a reference to an original_trajectory dict stands for.
BaselineValue(heap, ref) ==
    IF ref = 0 THEN None
    ELSE [position |-> heap[heap[ref].position].value,
          velocity |-> heap[heap[ref].velocity].value,
          timestamp |-> heap[ref].timestamp]

\* The state a reference to a state dict stands for.
StateValue(heap, ref) ==
    LET s == heap[ref]
        items == heap[s.maneuver_history].items
    IN  [position |-> heap[s.position].value,
         velocity |-> heap[s.velocity].value,
         original_trajectory |-> BaselineValue(heap, s.original_trajectory),
         last_maneuver |-> DictValue(heap, s.last_maneuver),
         maneuver_history |-> [i \in 1..Len(items) |-> heap[items[i]].value],
         updated_at |-> s.updated_at]

\* The body of apply_maneuver after the shallow copy dict(current_state): the
\* objects it creates and the keys of the copy it assigns.
apply_maneuver_into(heap, copy, risk_data, final_command, now) ==
    LET s == heap[copy]
        position == heap[s.position].value
        lat == RGet(risk_data, "latitude", RGet(position, "lat", 0))
        lon == RGet(risk_data, "longitude", RGet(position, "lon", 0))
        alt == RGet(risk_data, "altitude_km", RGet(position, "alt_km", 400))
        capture == s.original_trajectory = 0
        h1 == IF capture
              THEN heap \o <<DictObject(position),
                             DictObject(heap[s.velocity].value),
                             BaselineObject(Len(heap) + 1, Len(heap) + 2, now)>>
              ELSE heap
        baseline == IF capture THEN Len(h1) ELSE s.original_trajectory
        h2 == h1 \o <<DictObject([lat |-> lat, lon |-> lon, alt_km |-> alt]),
                      DictObject(maneuver_record(final_command, now)),
                      ListObject(Append(heap[s.maneuver_history].items, Len(h1) + 2))>>
    IN  [heap |-> [h2 EXCEPT ![copy] =
                      [s EXCEPT !.original_trajectory = baseline,
                                !.position = Len(h1) + 1,
                                !.last_maneuver = Len(h1) + 2,
                                !.maneuver_history = Len(h1) + 3]],
         ret |-> copy]

\* An apply_maneuver that assigns into the dict it was given.
apply_maneuver_on_argument(heap, current_state, risk_data, final_command, now) ==
    apply_maneuver_into(heap, current_state, risk_data, final_command, now)

\* apply_maneuver on objects: the shallow copy, then the body.
apply_maneuver_on(heap, current_state, risk_data, final_command, now) ==
    apply_maneuver_into(Append(heap, heap[current_state]), Len(heap) + 1,
                        risk_data, final_command, now)

\* restore_original_trajectory on objects: the shallow copy is returned as it
\* is when there is no baseline; otherwise position and velocity become copies
\* of the baseline's, the baseline is cleared and last_maneuver is a new dict.
restore_original_trajectory_on(heap, current_state, now) ==
    LET h0 == Append(heap, heap[current_state])
        copy == Len(h0)
        s == h0[copy]
        orig == s.original_trajectory
        h1 == h0 \o <<DictObject(h0[h0[orig].position].value),
                      DictObject(h0[h0[orig].velocity].value),
                      DictObject([timestamp |-> now,
                                  reason |-> "trajectory_restoration",
                                  action |-> JStr(T_HOLD_POSITION)])>>
    IN  IF orig = 0
        THEN [heap |-> h0, ret |-> copy, restored |-> FALSE]
        ELSE [heap |-> [h1 EXCEPT ![copy] =
                           [s EXCEPT !.position = Len(h0) + 1,
                                     !.velocity = Len(h0) + 2,
                                     !.original_trajectory = 0,
                                     !.last_maneuver = Len(h0) + 3]],
              ret |-> copy,
              restored |-> TRUE]

InitO ==
    /\ client = FALSE
    /\ MAX_RETRIES = 3
    /\ STATE_PERSISTENCE = TRUE
    /\ disk = "ok"
    /\ state_file = [kind |-> "absent"]
    /\ state = load_state(state_file, 1)
    /\ events = <<>>
    /\ clock = 2
    /\ InitSessions
    /\ vh = None
    /\ sh = None
    /\ fh = None
    /\ lh = None
    /\ hh = [heap |-> ImportedHeap, state |-> Len(ImportedHeap),
             file |-> [kind |-> "absent"],
             op |-> "import", arg |-> 0, ret |-> 0, restored |-> FALSE, total |-> 0]

\* The dicts a caller holds: get_state() and the dict the latest call returned.
HeldStates ==
    {hh.state} \cup ({hh.ret} \ {0})

\* A caller calls apply_maneuver on a dict it holds.
apply_objects ==
    /\ hh.total < MaxTransformCalls
    /\ \E current_state \in HeldStates, risk_data \in RiskReports :
        LET r == apply_maneuver_on(hh.heap, current_state, risk_data, D_FIRE, clock)
        IN  hh' = [hh EXCEPT !.heap = r.heap, !.op = "apply_maneuver",
                             !.arg = current_state, !.ret = r.ret,
                             !.restored = FALSE, !.total = hh.total + 1]
    /\ clock' = clock + 1
    /\ UNCHANGED <<config, store, events, pc, locals, resp, calls, n_restore,
                   restore_resp, vh, sh, fh, lh>>

\* A caller calls restore_original_trajectory on a dict it holds.
restore_objects ==
    /\ hh.total < MaxTransformCalls
    /\ \E current_state \in HeldStates :
        LET r == restore_original_trajectory_on(hh.heap, current_state, clock)
        IN  hh' = [hh EXCEPT !.heap = r.heap, !.op = "restore_original_trajectory",
                             !.arg = current_state, !.ret = r.ret,
                             !.restored = r.restored, !.total = hh.total + 1]
    /\ clock' = clock + 1
    /\ UNCHANGED <<config, store, events, pc, locals, resp, calls, n_restore,
                   restore_resp, vh, sh, fh, lh>>

\* set_state(state, persist) with the returned dict: _state refers to it, and
\* save_state writes a stamped copy of it when persist is set
\* (state_manager.py 139-143, 60-70).
set_state_objects ==
    /\ hh.total < MaxTransformCalls
    /\ hh.ret # 0
    /\ \E persist \in BOOLEAN :
        hh' = [hh EXCEPT !.state = hh.ret,
                         !.file = IF persist
                                  THEN save_state(StateValue(hh.heap, hh.ret), clock)
                                  ELSE hh.file,
                         !.op = "set_state", !.arg = hh.ret,
                         !.total = hh.total + 1]
    /\ clock' = clock + 1
    /\ UNCHANGED <<config, store, events, pc, locals, resp, calls, n_restore,
                   restore_resp, vh, sh, fh, lh>>

NextO ==
    \/ apply_objects
    \/ restore_objects
    \/ set_state_objects

SpecO == InitO /\ [][NextO]_vars
(***************************************************************************)
(* Properties of the validator.                                            *)
(***************************************************************************)

\* Two characters are the same character, or the same letter in two cases.
SameIgnoringCase(a, b) ==
    \/ a = b
    \/ Ord(a) \in 97..122 /\ Ord(b) = Ord(a) - 32
    \/ Ord(b) \in 97..122 /\ Ord(a) = Ord(b) - 32

\* The text holds the token, compared letter by letter in any letter case.
ContainsAnyCase(text, token) ==
    \E i \in 0..(Len(text) - Len(token)) :
        \A j \in 1..Len(token) : SameIgnoringCase(text[i + j], token[j])

HasDenyListedToken(command_json) ==
    \E kw \in BLOCKED_KEYWORDS : ContainsAnyCase(JsonDumps(command_json), kw)

\* C1: a command whose serialized form contains a deny-listed token, in any
\* letter case, is reported valid=false with source local_deny_list, and the
\* remote validator is not invoked for it, whether or not a remote client is
\* configured.
C1_DenyListedRejectedLocally ==
    vh # None =>
        (HasDenyListedToken(vh.command) =>
            /\ vh.run.report.valid = FALSE
            /\ vh.run.report.source = "local_deny_list"
            /\ vh.run.remote_called = FALSE)

\* A command that holds a token only in lower or mixed case, validated with a
\* remote client configured and answering.
C1_Witness ==
    /\ vh # None
    /\ client
    /\ vh.remote.kind = "content"
    /\ HasDenyListedToken(vh.command)
    /\ \A kw \in BLOCKED_KEYWORDS : ~Contains(JsonDumps(vh.command), kw)
    /\ vh.run.report.source = "local_deny_list"
    /\ vh.run.remote_called = FALSE

\* C2: a command that passes the deny-list, validated with no remote client
\* or with a remote call that raises, yields a report with valid=true, source
\* fallback and no violation tags.
C2_RemoteUnavailableFailsOpen ==
    vh # None =>
        ((/\ ~HasDenyListedToken(vh.command)
          /\ (~client \/ vh.remote.kind \in {"raise", "no_content"}))
            => /\ vh.run.report.valid = TRUE
               /\ vh.run.report.source = "fallback"
               /\ vh.run.report.violation_tags = <<>>)

\* The remote client is configured, the call is made and raises.
C2_Witness ==
    /\ vh # None
    /\ client
    /\ vh.remote.kind = "raise"
    /\ vh.run.remote_called
    /\ vh.run.report.valid
    /\ vh.run.report.source = "fallback"

\* C3: every report with valid=true has an empty list of violation tags.
C3_ValidReportHasNoTags ==
    vh # None =>
        (vh.run.report.valid => vh.run.report.violation_tags = <<>>)

\* A report the remote verdict made valid.
C3_Witness ==
    /\ vh # None
    /\ vh.run.report.valid
    /\ vh.run.report.source = "white_circle"
    /\ vh.run.report.violation_tags = <<>>

(***************************************************************************)
(* Properties of the /act loop.                                            *)
(***************************************************************************)

AllRejected(log) ==
    \A i \in 1..Len(log) : ~log[i].validation.valid

SomeAccepted(log) ==
    \E i \in 1..Len(log) : log[i].validation.valid

FirstAccepted(log) ==
    CHOOSE k \in 1..Len(log) :
        /\ log[k].validation.valid
        /\ \A j \in 1..(k - 1) : ~log[j].validation.valid

CallsTo(s, fn) ==
    {i \in 1..Len(calls[s]) : calls[s][i].fn = fn}

\* C4: with max_retries = N >= 1, a session all of whose attempts were
\* rejected ends MANUAL_OVERRIDE_REQUIRED, with exactly N records in its log
\* (attempts 1..N) and the proposal of attempt N as last blocked command.
C4_ExhaustedLoopOverrides ==
    \A s \in Sessions :
        (pc[s] = "done" /\ MAX_RETRIES >= 1 /\ AllRejected(attempts_log[s])) =>
            /\ resp[s].status = "MANUAL_OVERRIDE_REQUIRED"
            /\ resp[s].attempts = MAX_RETRIES
            /\ resp[s].attempts_log = attempts_log[s]
            /\ Len(resp[s].attempts_log) = MAX_RETRIES
            /\ \A i \in 1..MAX_RETRIES : resp[s].attempts_log[i].attempt = i
            /\ resp[s].last_blocked_command = attempts_log[s][MAX_RETRIES].command
            /\ resp[s].last_blocked_command = ai_response[s]

\* Three rejected attempts whose first and last proposals differ.
C4_Witness ==
    \E s \in Sessions :
        /\ pc[s] = "done"
        /\ resp[s].status = "MANUAL_OVERRIDE_REQUIRED"
        /\ Len(attempts_log[s]) = 3
        /\ attempts_log[s][1].command # attempts_log[s][3].command
        /\ resp[s].last_blocked_command = attempts_log[s][3].command

\* C5: when the first accepted attempt is attempt k, the session is over with
\* status EXECUTED, attempts = k, exactly k log records and the proposal of
\* attempt k as final command, and the validation of attempt k is the last
\* call the session made: k validator calls, and one proposer call for each
\* attempt that was not the injected one.
C5_FirstAcceptedAttemptEnds ==
    \A s \in Sessions :
        SomeAccepted(attempts_log[s]) =>
            LET k == FirstAccepted(attempts_log[s])
            IN  /\ pc[s] = "done"
                /\ resp[s].status = "EXECUTED"
                /\ resp[s].attempts = k
                /\ resp[s].attempts_log = attempts_log[s]
                /\ Len(resp[s].attempts_log) = k
                /\ resp[s].final_command = attempts_log[s][k].command
                /\ calls[s][Len(calls[s])] = ValidatorCall(k)
                /\ Cardinality(CallsTo(s, "validate_command")) = k
                /\ Cardinality(CallsTo(s, "analyze_situation"))
                     = k - (IF cyberattack_demo_used[s] THEN 1 ELSE 0)

\* A session accepted at attempt 2 of 3.
C5_Witness ==
    \E s \in Sessions :
        /\ pc[s] = "done"
        /\ MAX_RETRIES = 3
        /\ resp[s].status = "EXECUTED"
        /\ resp[s].attempts = 2
        /\ Len(attempts_log[s]) = 2

\* C6: every finished session has ended with one of the two outcomes EXECUTED
\* and MANUAL_OVERRIDE_REQUIRED, after at most max_retries attempts, and no
\* error has surfaced from it.
C6_EverySessionHasAnOutcome ==
    \A s \in Sessions :
        pc[s] = "done" =>
            /\ resp[s].status \in {"EXECUTED", "MANUAL_OVERRIDE_REQUIRED"}
            /\ Len(attempts_log[s]) <= MAX_RETRIES

\* C7: the proposer call of attempt 1 carries no rejection context, and the
\* proposer call of attempt k > 1 carries exactly the message formatted from
\* the violation tags of attempt k-1, which its prompt then quotes.
C7_FeedbackFromPrecedingAttempt ==
    \A s \in Sessions :
        \A i \in CallsTo(s, "analyze_situation") :
            LET c == calls[s][i]
                k == c.attempt
                update == user_prompt(c.risk_data, c.previous_rejection_reason).update
            IN  IF k = 1
                THEN /\ c.previous_rejection_reason = None
                     /\ update = <<>>
                ELSE /\ k - 1 \in 1..Len(attempts_log[s])
                     /\ c.previous_rejection_reason # None
                     /\ c.previous_rejection_reason = format_rejection_message(
                            attempts_log[s][k - 1].validation.violation_tags)
                     /\ update = T_UPDATE_HEAD \o c.previous_rejection_reason
                                     \o T_UPDATE_TAIL

\* The proposer call of attempt 3, after two rejections with different tags.
C7_Witness ==
    \E s \in Sessions :
        \E i \in CallsTo(s, "analyze_situation") :
            /\ calls[s][i].attempt = 3
            /\ attempts_log[s][1].validation.violation_tags
                 # attempts_log[s][2].validation.violation_tags
            /\ calls[s][i].previous_rejection_reason = format_rejection_message(
                   attempts_log[s][2].validation.violation_tags)

(***************************************************************************)
(* Properties of the state store.                                          *)
(***************************************************************************)

\* The step in which session s ends EXECUTED.
ExecutedStep(s) ==
    /\ pc[s] = "validating"
    /\ pc'[s] = "done"
    /\ resp'[s].status = "EXECUTED"

\* The step of a /restore request.
RestoreStep ==
    n_restore' = n_restore + 1

\* C8: the spacecraft state, in memory and on disk, changes only in the step
\* that ends a session EXECUTED or in a /restore step; proposing, a rejected
\* attempt and a session ending MANUAL_OVERRIDE_REQUIRED leave it as it was.
C8_StoreChangesOnlyOnExecuteOrRestore ==
    [][store' # store => ((\E s \in Sessions : ExecutedStep(s)) \/ RestoreStep)]_vars

\* A session that ended in manual override after three rejections, with the
\* store as the process found it.
C8_Witness ==
    \E s \in Sessions :
        /\ pc[s] = "done"
        /\ resp[s].status = "MANUAL_OVERRIDE_REQUIRED"
        /\ Len(attempts_log[s]) = 3
        /\ n_restore = 0
        /\ state_file.kind = "absent"
        /\ state.maneuver_history = <<>>

\* The store after the step holds the maneuver of session s: the position of
\* the risk report, a last maneuver made of the accepted proposal, the history
\* one entry longer, and the file holding the same state.
StoreHoldsManeuver(s) ==
    LET final == resp'[s].final_command
        risk == req[s].risk_data
        h == state'.maneuver_history
    IN  /\ Len(h) = Len(state.maneuver_history) + 1
        /\ SubSeq(h, 1, Len(h) - 1) = state.maneuver_history
        /\ h[Len(h)] = state'.last_maneuver
        /\ state'.last_maneuver.action = Get(final, K_action)
        /\ state'.last_maneuver.thrust_direction
             = Get(final, K_recommended_thrust_direction)
        /\ state'.last_maneuver.confidence = Get(final, K_confidence_score)
        /\ state'.position = [lat |-> RGet(risk, "latitude", state.position.lat),
                              lon |-> RGet(risk, "longitude", state.position.lon),
                              alt_km |-> RGet(risk, "altitude_km", state.position.alt_km)]
        /\ state_file'.kind = "json"
        /\ \A f \in {"position", "velocity", "original_trajectory", "last_maneuver",
                     "maneuver_history"} : state_file'.value[f] = state'[f]

\* C9 as stated: every step that ends a session EXECUTED mutates the store
\* with the accepted proposal and the session's risk report and persists it.
C9_EveryExecutedSessionMutates ==
    [][\A s \in Sessions : ExecutedStep(s) => StoreHoldsManeuver(s)]_vars

\* C9 amended: a step that ends a session EXECUTED mutates and persists the
\* store when STATE_PERSISTENCE is enabled, and the response says so; when it
\* is not, the store is left as it was and the response says state_saved=false.
C9_ExecutedSessionMutatesWhenEnabled ==
    [][\A s \in Sessions :
          ExecutedStep(s) =>
              IF STATE_PERSISTENCE
              THEN StoreHoldsManeuver(s) /\ resp'[s].state_saved
              ELSE store' = store /\ ~resp'[s].state_saved]_vars

\* An executed session, persistence enabled, on top of an earlier maneuver.
C9_Witness ==
    \E s \in Sessions :
        /\ pc[s] = "done"
        /\ resp[s].status = "EXECUTED"
        /\ STATE_PERSISTENCE
        /\ n_restore = 0
        /\ Len(state.maneuver_history) = 2
        /\ state.last_maneuver.action = Get(resp[s].final_command, K_action)
        /\ state_file.value.maneuver_history = state.maneuver_history

\* C10: from a state with a null original_trajectory, the first apply_maneuver
\* call captures the position and velocity held before the call, and later
\* apply_maneuver calls leave the captured values as they are.
C10_OriginalCapturedOnceOnly ==
    sh # None =>
        (sh.n >= 1 =>
            /\ sh.cur.original_trajectory # None
            /\ sh.cur.original_trajectory.position = sh.pre.position
            /\ sh.cur.original_trajectory.velocity = sh.pre.velocity)

\* Two or more calls, the position having moved away from the captured one.
C10_Witness ==
    /\ sh # None
    /\ sh.n >= 2
    /\ sh.cur.position # sh.pre.position
    /\ sh.cur.original_trajectory.position = sh.pre.position
    /\ Len(sh.cur.maneuver_history) >= 2

(***************************************************************************)
(* Properties of the state transforms.                                     *)
(***************************************************************************)

\* The step of one apply_maneuver call on the value under transformation.
ApplyCall ==
    sh'.n = sh.n + 1

\* The step of one restore_original_trajectory call on it.
RestoreCall ==
    sh'.total = sh.total + 1 /\ sh'.n = 0

\* C11: every apply_maneuver call returns a state whose maneuver_history is
\* the input history with exactly one entry appended, the earlier entries
\* unchanged and in the same order, and whose last_maneuver is that entry.
C11_HistoryAppendOnly ==
    [][ApplyCall =>
          LET h == sh.cur.maneuver_history
              hn == sh'.cur.maneuver_history
          IN  /\ Len(hn) = Len(h) + 1
              /\ SubSeq(hn, 1, Len(h)) = h
              /\ hn[Len(hn)] = sh'.cur.last_maneuver]_vars

\* Three calls, the first and the last entry different.
C11_Witness ==
    /\ sh # None
    /\ sh.n >= 1
    /\ Len(sh.cur.maneuver_history) = 3
    /\ sh.cur.maneuver_history[1] # sh.cur.maneuver_history[3]
    /\ sh.cur.maneuver_history[3] = sh.cur.last_maneuver

\* C12: restore_original_trajectory on a state whose original_trajectory is
\* null returns restored=false and the input state, and the /restore request
\* that meets such a state answers NO_ORIGINAL_TRAJECTORY and leaves memory
\* and file as they were.
C12_RestoreWithoutBaselineIsNoOp ==
    [][(RestoreStep /\ state.original_trajectory = None) =>
          /\ restore_original_trajectory(state, clock) = <<state, FALSE>>
          /\ store' = store
          /\ restore_resp'.status = "NO_ORIGINAL_TRAJECTORY"
          /\ restore_resp'.current_state = state]_vars

\* A /restore served with no baseline and no state file: none was written.
C12_Witness ==
    /\ n_restore = 1
    /\ restore_resp # None
    /\ restore_resp.status = "NO_ORIGINAL_TRAJECTORY"
    /\ state.original_trajectory = None
    /\ state_file.kind = "absent"

\* C13: restore_original_trajectory on a state whose original_trajectory is
\* not null returns restored=true and a state whose position and velocity are
\* the baseline's, whose original_trajectory is null and whose last_maneuver
\* is a record tagged trajectory_restoration.
C13_RestoreReturnsToBaseline ==
    [][(RestoreCall /\ sh.cur.original_trajectory # None) =>
          /\ sh'.restored
          /\ sh'.cur.position = sh.cur.original_trajectory.position
          /\ sh'.cur.velocity = sh.cur.original_trajectory.velocity
          /\ sh'.cur.original_trajectory = None
          /\ sh'.cur.last_maneuver.reason = "trajectory_restoration"]_vars

\* A restore after maneuvers that moved the position.
C13_Witness ==
    /\ sh # None
    /\ sh.restored
    /\ sh.n = 0
    /\ Len(sh.cur.maneuver_history) >= 2
    /\ sh.cur.original_trajectory = None
    /\ sh.cur.last_maneuver.reason = "trajectory_restoration"
    /\ sh.cur.position = sh.pre.position


\* A load_state that returned, and read what a completed save_state wrote.
LoadedAfterSave ==
    fh # None /\ fh.got # None /\ fh.got.after # None

\* C14 (as stated): load_state() called after save_state(s) returns a state
\* equal to s.  save_state stamps updated_at on the copy it writes, so the
\* loaded state differs from s in that field.
C14_LoadAfterSaveReturnsSame ==
    LoadedAfterSave => fh.got.value = fh.got.after.s

\* C14 (amended): load_state() called after save_state(s) returns a state
\* equal to s in every field except updated_at, which holds the time of the
\* save.
C14_LoadAfterSaveReturnsSameButStamp ==
    LoadedAfterSave =>
        /\ DOMAIN fh.got.value = DOMAIN fh.got.after.s
        /\ \A f \in DOMAIN fh.got.value \ {"updated_at"} :
               fh.got.value[f] = fh.got.after.s[f]
        /\ fh.got.value.updated_at = now_iso(fh.got.after.at)

C14_Witness ==
    /\ LoadedAfterSave
    /\ Len(fh.got.after.s.maneuver_history) = 2
    /\ fh.got.value.maneuver_history = fh.got.after.s.maneuver_history
    /\ fh.got.after.s.original_trajectory # None
    /\ fh.got.value.updated_at # fh.got.after.s.updated_at

\* The default state: default position and velocity, null
\* original_trajectory, null last_maneuver, empty maneuver_history.
IsDefaultState(value) ==
    /\ "raised" \notin DOMAIN value
    /\ value.position = [lat |-> 0, lon |-> 0, alt_km |-> 400]
    /\ value.velocity = [x |-> 0, y |-> 7800, z |-> 0]
    /\ value.original_trajectory = None
    /\ value.last_maneuver = None
    /\ value.maneuver_history = <<>>

\* C15: load_state never raises on a missing or corrupt state file: it
\* returns the default state.  Violated by a file whose bytes are not UTF-8:
\* read_text raises UnicodeDecodeError, which the except clause does not
\* catch.
C15_LoadDefaultsOnMissingOrCorrupt ==
    (fh # None /\ fh.got # None /\ fh.got.kind # "json") =>
        IsDefaultState(fh.got.value)

\* C17: load_state never reads the file while a save_state write is in
\* progress, so no load returns what a half-done write left in the file.
C17_ReadAndWriteExclusive ==
    fh # None =>
        /\ ~(fh.load_pc = "reading" /\ fh.save_pc = "writing")
        /\ fh.got # None => ~fh.got.during_write

\* A load_state waits for the lock while a write is in progress, and an
\* earlier load_state has returned.
C17_Witness ==
    /\ fh # None
    /\ fh.save_pc = "writing"
    /\ fh.load_pc = "locking"
    /\ fh.lock = "save"
    /\ fh.got # None

\* The step in which a session's validator accepts the proposal.
AcceptingStep(s) ==
    /\ pc[s] = "validating"
    /\ pc'[s] = "done"
    /\ attempts_log'[s] # <<>>
    /\ attempts_log'[s][Len(attempts_log'[s])].validation.valid

\* C18: when the durable write fails, the operation that asked for it (the
\* apply-and-persist of an accepted session, or a /restore that had a
\* baseline) ends with the OSError and does not report EXECUTED or
\* TRAJECTORY_RESTORED.
C18_WriteFailurePropagates ==
    [][disk # "ok" =>
          /\ \A s \in Sessions :
                (AcceptingStep(s) /\ STATE_PERSISTENCE) =>
                    resp'[s] = HandlerError("OSError")
          /\ (RestoreStep /\ state.original_trajectory # None) =>
                restore_resp' = HandlerError("OSError")]_vars

\* Both operations have failed on a disk that truncates the file and then
\* fails.
C18_Witness ==
    /\ disk = "write_fails"
    /\ resp["s1"] # None
    /\ resp["s1"] = HandlerError("OSError")
    /\ restore_resp # None
    /\ restore_resp = HandlerError("OSError")
    /\ state_file.kind = "invalid_json"

\* The fixed safe default: action HOLD_POSITION, confidence 0.0, reasoning
\* AI_ERROR_FALLBACK, thrust direction NONE, and nothing else.
IsSafeDefault(command) ==
    /\ Len(command) = 4
    /\ Get(command, K_action) = JStr(T_HOLD_POSITION)
    /\ Get(command, K_confidence_score) = JNum(N_0_0)
    /\ Get(command, K_reasoning) = JStr(T_AI_ERROR_FALLBACK)
    /\ Get(command, K_recommended_thrust_direction) = JStr(T_NONE)

\* The model call failed, or its output is not JSON, is not a JSON object, or
\* is an object without one of the four required keys.
Malformed(llm) ==
    \/ llm.kind # "object"
    \/ \E key \in {K_action, K_reasoning, K_confidence_score,
                   K_recommended_thrust_direction} : ~HasKey(llm.value, key)

\* The step in which analyze_situation returns to the loop.
ProposerStep(s) ==
    pc[s] = "proposing" /\ pc'[s] = "validating"

\* The step in which validate_command returns to the loop.
ValidatorStep(s) ==
    pc[s] = "validating" /\ pc'[s] # "validating"

\* C19: analyze_situation hands the loop a command on every outcome of the
\* model call, the safe default on every failed or malformed one; and the loop
\* treats the default as any proposal: it is validated, logged with the
\* validator's verdict, executed if accepted, and retried or overridden if
\* rejected.
C19_ProposerFallsBackToSafeDefault ==
    [][\A s \in Sessions :
          /\ ProposerStep(s) =>
                /\ \A llm \in LLMOutcomes :
                      Malformed(llm) =>
                          IsSafeDefault(analyze_situation(req[s].risk_data,
                                                          rejection_reason[s], llm))
                /\ \/ IsSafeDefault(ai_response'[s])
                   \/ \E llm \in LLMOutcomes :
                         ~Malformed(llm) /\ ai_response'[s] = llm.value
          /\ (ValidatorStep(s) /\ IsSafeDefault(ai_response[s])) =>
                LET log == attempts_log'[s]
                    rec == log[Len(log)]
                IN  /\ Len(log) = Len(attempts_log[s]) + 1
                    /\ \E remote \in RemoteOutcomes :
                          rec = AttemptRecord(attempt[s], ai_response[s],
                                    validate_command(ai_response[s], req[s].session_id,
                                                     clock, client, remote))
                    /\ rec.validation.valid =>
                          /\ pc'[s] = "done"
                          /\ resp'[s].status = "EXECUTED"
                          /\ resp'[s].final_command = ai_response[s]
                    /\ (~rec.validation.valid /\ attempt[s] < MAX_RETRIES) =>
                          pc'[s] = "proposing"
                    /\ (~rec.validation.valid /\ attempt[s] >= MAX_RETRIES) =>
                          /\ pc'[s] = "done"
                          /\ resp'[s].status = "MANUAL_OVERRIDE_REQUIRED"
                          /\ resp'[s].last_blocked_command = ai_response[s]]_vars

\* A session proposed the safe default twice: the validator rejected it the
\* first time and accepted it the second, and the session ended EXECUTED.
C19_Witness ==
    /\ pc["s1"] = "done"
    /\ Len(attempts_log["s1"]) = 2
    /\ IsSafeDefault(attempts_log["s1"][1].command)
    /\ ~attempts_log["s1"][1].validation.valid
    /\ IsSafeDefault(attempts_log["s1"][2].command)
    /\ attempts_log["s1"][2].validation.valid
    /\ resp["s1"].status = "EXECUTED"
    /\ IsSafeDefault(resp["s1"].final_command)

\* The sessions that have ended EXECUTED.
ExecutedSessions ==
    {s \in AllSessions : resp[s] # None /\ resp[s].status = "EXECUTED"}

\* The time at which session s ended EXECUTED, from the event log.
ExecutedAt(s) ==
    LET i == CHOOSE j \in 1..Len(events) :
                 /\ events[j].payload.session_id = s
                 /\ events[j].payload.status = "EXECUTED"
    IN  events[i].timestamp

\* The places of maneuver_history filled since the process started (entries
\* found in the state file at start-up carry the time of an earlier run).
EntriesSinceStart ==
    {i \in 1..Len(state.maneuver_history) : state.maneuver_history[i].timestamp > 0}

\* Every executed session has exactly one entry in maneuver_history, made of
\* its accepted proposal, entries appear in the order the sessions ended, and
\* the state file holds the same history.
OneEntryPerExecutedSession ==
    LET h == state.maneuver_history
    IN  /\ Cardinality(EntriesSinceStart) = Cardinality(ExecutedSessions)
        /\ \A s \in ExecutedSessions :
              /\ Cardinality({i \in EntriesSinceStart :
                     h[i] = maneuver_record(resp[s].final_command, ExecutedAt(s))}) = 1
        /\ \A i, j \in EntriesSinceStart : i < j => h[i].timestamp < h[j].timestamp
        /\ ExecutedSessions # {} =>
              /\ state_file.kind = "json"
              /\ state_file.value.maneuver_history = h

\* C16 (as stated): when m concurrent sessions have ended EXECUTED, with or
\* without a /restore in between, maneuver_history is exactly m entries longer
\* than at the start and holds one entry per executed session.
C16_NoUpdateLost ==
    OneEntryPerExecutedSession

\* C16 (amended): the same with STATE_PERSISTENCE enabled; with it disabled
\* no session adds an entry.
C16_NoUpdateLostWhenEnabled ==
    IF STATE_PERSISTENCE
    THEN OneEntryPerExecutedSession
    ELSE EntriesSinceStart = {}

\* Both sessions executed, one of them on its second attempt, a /restore was
\* served, and the history holds the earlier run's entry and theirs.
C16_Witness ==
    /\ STATE_PERSISTENCE
    /\ ExecutedSessions = AllSessions
    /\ n_restore = 1
    /\ restore_resp.status = "TRAJECTORY_RESTORED"
    /\ resp["s1"].attempts = 2
    /\ Len(state.maneuver_history) = 3
    /\ Cardinality(EntriesSinceStart) = 2
    /\ state.maneuver_history[2].action # state.maneuver_history[3].action

\* C20: in every session's attempt log the i-th record has attempt index i,
\* also while another session runs: a step that changes a session's log
\* appends one record, numbered one more than the log's length and holding
\* that session's own proposal, and changes no other session's log; the log a
\* session returns is its own.
C20_AttemptIndicesContiguousPerSession ==
    [][\A s \in AllSessions :
          /\ \A i \in 1..Len(attempts_log'[s]) : attempts_log'[s][i].attempt = i
          /\ attempts_log'[s] # attempts_log[s] =>
                /\ Len(attempts_log'[s]) = Len(attempts_log[s]) + 1
                /\ SubSeq(attempts_log'[s], 1, Len(attempts_log[s])) = attempts_log[s]
                /\ attempts_log'[s][Len(attempts_log'[s])].command = ai_response[s]
                /\ \A t \in AllSessions \ {s} : attempts_log'[t] = attempts_log[t]
          /\ (pc[s] # "done" /\ pc'[s] = "done") =>
                resp'[s].attempts_log = attempts_log'[s]]_vars

\* Two sessions, two attempts each, with different first proposals; one ended
\* EXECUTED and the other MANUAL_OVERRIDE_REQUIRED.
C20_Witness ==
    /\ \A s \in AllSessions : pc[s] = "done" /\ Len(attempts_log[s]) = 2
    /\ attempts_log["s1"][1].command # attempts_log["s2"][1].command
    /\ attempts_log["s1"][2].attempt = 2
    /\ attempts_log["s2"][2].attempt = 2
    /\ resp["s1"].status = "EXECUTED"
    /\ resp["s2"].status = "MANUAL_OVERRIDE_REQUIRED"

\* The external call of session s that has not returned yet, if any.
InFlight(s) ==
    pc[s] \in {"proposing", "validating"}

\* C21: within a session the external calls are strictly sequential: every
\* validator call of attempt k directly follows the proposer call of attempt
\* k (or opens the session, when attempt 1 uses the injected command), every
\* proposer call of attempt k+1 directly follows the validator call of
\* attempt k, and at most the last call made has not returned.
C21_CallsSequentialWithinSession ==
    \A s \in AllSessions :
        LET c == calls[s]
        IN  /\ \A i \in 1..Len(c) :
                  IF c[i].fn = "validate_command"
                  THEN \/ i = 1 /\ c[i].attempt = 1 /\ cyberattack_demo_used[s]
                       \/ /\ i > 1
                          /\ c[i - 1].fn = "analyze_situation"
                          /\ c[i - 1].attempt = c[i].attempt
                  ELSE /\ c[i].fn = "analyze_situation"
                       /\ \/ i = 1 /\ c[i].attempt = 1
                          \/ /\ i > 1
                             /\ c[i - 1].fn = "validate_command"
                             /\ c[i - 1].attempt + 1 = c[i].attempt
            /\ InFlight(s) =>
                  /\ c # <<>>
                  /\ c[Len(c)].attempt = attempt[s]
                  /\ (pc[s] = "proposing") = (c[Len(c)].fn = "analyze_situation")
            /\ Len(attempts_log[s]) =
                  Cardinality(CallsTo(s, "validate_command"))
                  - (IF pc[s] = "validating" THEN 1 ELSE 0)

\* Calls of different sessions overlap: one session waits for its second
\* proposal while the other waits for the validation of the injected command.
C21_Witness ==
    /\ pc["s2"] = "proposing"
    /\ attempt["s2"] = 2
    /\ Len(calls["s2"]) = 3
    /\ pc["s1"] = "validating"
    /\ Len(calls["s1"]) = 1
    /\ cyberattack_demo_used["s1"]

\* The places of the event log that hold an act event of session s.
ActEventsOf(s) ==
    {i \in 1..Len(events) :
        events[i].event_type = "act" /\ events[i].payload.session_id = s}

\* C22: a session that has ended has exactly one act event in the event log,
\* whose status is the session's outcome status, whose attempts field is the
\* number of attempts made and whose attempts_log is the session's log.
\* Violated when MAX_RETRIES is 0: the event says MANUAL_OVERRIDE_REQUIRED and
\* the session then ends with an UnboundLocalError.
C22_OneActEventMatchingOutcome ==
    \A s \in Sessions :
        pc[s] = "done" =>
            /\ Cardinality(ActEventsOf(s)) = 1
            /\ \A i \in ActEventsOf(s) :
                  /\ events[i].payload.status = resp[s].status
                  /\ events[i].payload.attempts = Len(attempts_log[s])
                  /\ events[i].payload.attempts_log = attempts_log[s]

\* The event file holds the lines of the completed appends, whole and in the
\* order of completion, followed at most by the part already written of the
\* one append in progress.
EventFileWhole ==
    LET writing == {w \in Writers : lh.w_pc[w] = "writing"}
    IN  \/ writing = {} /\ lh.file = LinesOf(lh.completed)
        \/ \E w \in writing :
              /\ writing = {w}
              /\ lh.file = Append(LinesOf(lh.completed), event_line(lh.w_event[w])[1])

\* seq is the first places of whole.
IsPrefix(seq, whole) ==
    Len(seq) <= Len(whole) /\ seq = SubSeq(whole, 1, Len(seq))

\* C23 (as stated): the event log only grows by whole records, and every
\* read observes a prefix of the sequence of completed appends.  A read
\* returns the last lines of the file only, so with more records than the
\* read limit it is no prefix.
C23_ReadsObservePrefix ==
    lh # None =>
        /\ EventFileWhole
        /\ lh.got # None => IsPrefix(lh.got.events, lh.completed)

\* C23 (amended): the event log only grows by whole records, and every read
\* observes the last records, up to the read limit, of the appends that were
\* complete when it read: whole records, in order, none of an append in
\* progress.
C23_ReadsObserveTailOfPrefix ==
    lh # None =>
        /\ EventFileWhole
        /\ lh.got # None =>
              /\ lh.got.seen <= Len(lh.completed)
              /\ lh.got.events =
                    SubSeq(lh.completed,
                           IF lh.got.seen > LoadLimit
                           THEN lh.got.seen - LoadLimit + 1 ELSE 1,
                           lh.got.seen)

\* A read of a log that holds one record more than the limit: it returns
\* the records from the second on.
C23_Witness ==
    /\ lh # None
    /\ lh.got # None
    /\ lh.got.seen = LoadLimit + 1
    /\ Len(lh.got.events) = LoadLimit
    /\ lh.got.events[1] = lh.completed[2]
    /\ Len(lh.completed) = LoadLimit + 1

\* The act events of a window, and those of them with status EXECUTED.
ActCount(evs) ==
    Cardinality({i \in 1..Len(evs) : evs[i].event_type = "act"})

ExecutedCount(evs) ==
    Cardinality({i \in 1..Len(evs) :
        evs[i].event_type = "act" /\ evs[i].payload.status = "EXECUTED"})

\* C30 (as stated): the success rate reported is the number of act events
\* with status EXECUTED divided by the number of act events in the window,
\* and 0 when there is none (numbers are held in hundredths).  The code
\* reports that quotient times 100.
C30_SuccessRateIsQuotient ==
    (lh # None /\ lh.got # None) =>
        LET acts == ActCount(lh.got.events)
            rate == lh.got.summary.execution_success_rate
        IN  IF acts = 0 THEN rate = 0
            ELSE rate * acts = 100 * ExecutedCount(lh.got.events)

\* C30 (amended): the success rate reported is the percentage of act events
\* in the window whose status is EXECUTED, rounded to two decimals, and 0
\* when the window holds no act event; events of other types do not count.
C30_SuccessRateIsPercentage ==
    (lh # None /\ lh.got # None) =>
        LET acts == ActCount(lh.got.events)
            rate == lh.got.summary.execution_success_rate
            exact == 10000 * ExecutedCount(lh.got.events)
        IN  /\ lh.got.summary.act_events = acts
            /\ IF acts = 0 THEN rate = 0
               ELSE /\ 2 * (rate * acts - exact) <= acts
                    /\ 2 * (exact - rate * acts) <= acts

\* A window of one scan event, one executed and one overridden session, read
\* from a log whose first record, another executed session, lies outside it:
\* the rate reported is 50.00.
C30_Witness ==
    /\ lh # None
    /\ lh.got # None
    /\ lh.got.seen = 4
    /\ lh.completed[1].event_type = "act"
    /\ lh.completed[1].payload.status = "EXECUTED"
    /\ Len(lh.got.events) = 3
    /\ lh.got.events[1].event_type = "scan"
    /\ lh.got.events[2].event_type = "act"
    /\ lh.got.events[2].payload.status = "EXECUTED"
    /\ lh.got.events[3].payload.status = "MANUAL_OVERRIDE_REQUIRED"
    /\ lh.got.summary.execution_success_rate = 5000

\* C24: the remote tier is attempted only if no deny-listed token matched and
\* a remote client is configured, and the source tag names the tier that
\* decided: local_deny_list exactly when a deny-listed token matched,
\* white_circle (the tag of the remote tier) exactly when the remote call
\* was made and answered, fallback exactly when no token matched and the
\* remote tier was not configured or failed.
C24_SourceNamesDecidingTier ==
    vh # None =>
        LET denied == HasDenyListedToken(vh.command)
            answered == client /\ vh.remote.kind = "content"
            source == vh.run.report.source
        IN  /\ vh.run.remote_called = (~denied /\ client)
            /\ (source = "local_deny_list") = denied
            /\ (source = "white_circle") = (~denied /\ answered)
            /\ (source = "fallback") = (~denied /\ ~answered)

\* A command with a deny-listed token, checked with a remote client that
\* would have answered SAFE: the remote tier is not asked.
C24_Witness ==
    /\ vh # None
    /\ client
    /\ vh.remote.kind = "content"
    /\ vh.remote.content = REPLY_SAFE
    /\ ~vh.run.remote_called
    /\ vh.run.report.source = "local_deny_list"
    /\ ~vh.run.report.valid

\* The tag derived from one flagged policy: policy_name:source_list
\* when the policy names sources, the bare policy_name otherwise.
PolicyTag(policy) ==
    IF policy.flagged_source # <<>>
    THEN policy.name \o <<":">> \o Join(<<",">>, policy.flagged_source)
    ELSE policy.name

\* C25: when the remote policy tier answers, flagged=true gives valid=false
\* with one violation tag per flagged policy (policy_name:source_list when a
\* source list is present, the bare policy_name otherwise), and flagged=false
\* gives valid=true with no tags.
C25_RemoteAnswerMappedFromFlagged ==
    (/\ vh # None
     /\ vh.run.remote_called
     /\ vh.remote.kind = "check_result")
        => LET flagged_policies == SelectSeq(vh.remote.policies, LAMBDA p : p.flagged)
           IN  /\ vh.run.report.valid = ~vh.remote.flagged
               /\ vh.run.report.violation_tags =
                      [i \in 1..Len(flagged_policies) |-> PolicyTag(flagged_policies[i])]

\* C26: for a proposal rejected by the local deny-list, violation_tags lists
\* exactly the deny-listed tokens that occur in the upper-cased serialized
\* proposal, in strictly ascending order (so without duplicates); a token
\* that lies within another matched token, such as DESTRUCT within
\* SELF_DESTRUCT, is listed as well.
C26_DenyListTagsSortedMatches ==
    (vh # None /\ vh.run.report.source = "local_deny_list")
        => LET tags == vh.run.report.violation_tags
               text == Upper(JsonDumps(vh.command))
           IN  /\ {tags[i] : i \in 1..Len(tags)}
                      = {kw \in BLOCKED_KEYWORDS : Contains(text, kw)}
               /\ \A i \in 1..Len(tags), j \in 1..Len(tags) :
                      i < j => StrLess(tags[i], tags[j])
               /\ (\E i \in 1..Len(tags) : tags[i] = KW_SELF_DESTRUCT)
                      => \E j \in 1..Len(tags) : tags[j] = KW_DESTRUCT

\* A rejected proposal whose text holds SELF_DESTRUCT and a token from its
\* reasoning: DESTRUCT is listed next to SELF_DESTRUCT, three tags in order.
C26_Witness ==
    /\ vh # None
    /\ vh.run.report.source = "local_deny_list"
    /\ Len(vh.run.report.violation_tags) >= 3
    /\ \E i, j \in 1..Len(vh.run.report.violation_tags) :
          /\ i < j
          /\ vh.run.report.violation_tags[i] = KW_DESTRUCT
          /\ vh.run.report.violation_tags[j] = KW_SELF_DESTRUCT

\* C27: a session that has ended has a non-empty attempt log, whatever
\* MAX_RETRIES was configured (at least one proposal was produced and
\* validated), and a MANUAL_OVERRIDE_REQUIRED outcome carries the proposal of
\* the session's last attempt, which was rejected.
\* Violated when MAX_RETRIES is 0: the loop body never runs.
C27_AtLeastOneAttempt ==
    \A s \in Sessions :
        pc[s] = "done" =>
            /\ Len(attempts_log[s]) >= 1
            /\ CallsTo(s, "validate_command") # {}
            /\ resp[s].status = "MANUAL_OVERRIDE_REQUIRED" =>
                  LET n == Len(attempts_log[s])
                  IN  /\ resp[s].attempts_log = attempts_log[s]
                      /\ resp[s].last_blocked_command = attempts_log[s][n].command
                      /\ ~attempts_log[s][n].validation.valid

\* The risk report key that feeds each position field.
PositionSources ==
    {<<"latitude", "lat">>, <<"longitude", "lon">>, <<"altitude_km", "alt_km">>}

\* C28: apply_maneuver sets each of the position fields lat, lon, alt_km on
\* its own: a field present in the risk report takes the reported value, and
\* a field absent from the risk report keeps the value of the input state.
C28_PositionFieldsFallBackSingly ==
    [][ApplyCall =>
        \A f \in PositionSources :
            sh'.cur.position[f[2]] =
                IF f[1] \in DOMAIN sh'.risk
                THEN sh'.risk[f[1]]
                ELSE sh.cur.position[f[2]]]_vars

\* A first apply_maneuver call with a report that holds the latitude only, on
\* a state whose longitude and altitude are not the defaults: the latitude is
\* the reported one, the other two fields are those of the input state.
C28_Witness ==
    /\ sh # None
    /\ sh.n = 1
    /\ sh.risk # None
    /\ DOMAIN sh.risk = {"latitude", "status"}
    /\ sh.cur.position.lat = sh.risk.latitude
    /\ sh.pre.position = [lat |-> 1, lon |-> 2, alt_km |-> 390]
    /\ sh.cur.position = [lat |-> 30, lon |-> 2, alt_km |-> 390]

\* The step of one apply_maneuver or restore_original_trajectory call on objects.
TransformStep ==
    /\ hh'.total = hh.total + 1
    /\ hh'.op \in {"apply_maneuver", "restore_original_trajectory"}

\* The objects that make up the state dict at a reference: the dict, its
\* position, velocity, baseline (with its own position and velocity),
\* last_maneuver, the history list and the entries of the list.
ObjectsOf(heap, ref) ==
    LET s == heap[ref]
        items == heap[s.maneuver_history].items
        orig == s.original_trajectory
    IN  ({ref, s.position, s.velocity, s.maneuver_history, s.last_maneuver, orig}
         \cup {items[i] : i \in 1..Len(items)}
         \cup (IF orig # 0 THEN {heap[orig].position, heap[orig].velocity} ELSE {}))
        \ {0}

\* C29: apply_maneuver and restore_original_trajectory are pure transforms: a
\* call leaves every object of the state passed in as it was (the dict, its
\* position, velocity and maneuver_history included), leaves _state and the
\* state file as they were, and the value of _state and the file change only
\* in a set_state call, to the dict that was returned.
C29_TransformsArePure ==
    [][/\ TransformStep =>
            /\ \A a \in ObjectsOf(hh.heap, hh'.arg) : hh'.heap[a] = hh.heap[a]
            /\ StateValue(hh'.heap, hh'.arg) = StateValue(hh.heap, hh'.arg)
            /\ \A a \in ObjectsOf(hh.heap, hh.state) : hh'.heap[a] = hh.heap[a]
            /\ hh'.state = hh.state
            /\ hh'.file = hh.file
       /\ (\/ StateValue(hh'.heap, hh'.state) # StateValue(hh.heap, hh.state)
           \/ hh'.file # hh.file)
            => /\ hh'.op = "set_state"
               /\ hh'.state = hh.ret]_vars

\* After a maneuver was applied and stored, restore_original_trajectory was
\* called on _state and its result not stored: the returned dict is restored
\* while _state and the file still hold the baseline and one maneuver.
C29_Witness ==
    /\ hh # None
    /\ hh.op = "restore_original_trajectory"
    /\ hh.arg = hh.state
    /\ hh.restored
    /\ hh.ret # hh.state
    /\ StateValue(hh.heap, hh.ret).original_trajectory = None
    /\ StateValue(hh.heap, hh.state).original_trajectory # None
    /\ hh.heap[hh.ret].maneuver_history = hh.heap[hh.state].maneuver_history
    /\ hh.file.kind = "json"
    /\ hh.file.value.original_trajectory # None
    /\ hh.file.value.last_maneuver.reason = "collision_avoidance"

\* The places <<i, j>> of the attempts embedded in the act events read: event
\* i of the window is an act event and j is a place of its attempts_log.
AttemptPlaces ==
    {ij \in (1..Len(lh.got.events)) \X (1..8) :
        /\ lh.got.events[ij[1]].event_type = "act"
        /\ "attempts_log" \in DOMAIN lh.got.events[ij[1]].payload
        /\ ij[2] <= Len(lh.got.events[ij[1]].payload.attempts_log)}

\* The validation of the attempt at a place (no fields when it has none).
ValidationAt(ij) ==
    LET entry == lh.got.events[ij[1]].payload.attempts_log[ij[2]]
    IN  IF "validation" \in DOMAIN entry THEN entry.validation ELSE <<>>

\* The attempt at a place has valid=false.
BlockedAt(ij) ==
    "valid" \in DOMAIN ValidationAt(ij) /\ ValidationAt(ij).valid = FALSE

\* The violation tags of the attempt at a place.
TagsAt(ij) ==
    IF "violation_tags" \in DOMAIN ValidationAt(ij)
    THEN ValidationAt(ij).violation_tags ELSE <<>>

\* The sum of the counts of a frequency table.
RECURSIVE TableTotal(_, _)
TableTotal(table, keys) ==
    IF keys = {} THEN 0
    ELSE LET k == CHOOSE x \in keys : TRUE
         IN  table[k] + TableTotal(table, keys \ {k})

\* C31: over all attempts embedded in the act events of the window read by
\* get_insights, the validation-source table sums to the number of attempts,
\* blocked_attempts is the number of attempts with valid=false, and the
\* violation-tag table counts every tag of every blocked attempt, a blocked
\* attempt without tags once as UNKNOWN, and no tag of an accepted attempt.
C31_HotspotTablesCountAttempts ==
    (lh # None /\ lh.got # None) =>
        LET summary == lh.got.summary
            rejected == {ij \in AttemptPlaces : BlockedAt(ij)}
            occurrences(tag) ==
                Cardinality({ijk \in rejected \X (1..4) :
                                /\ ijk[2] <= Len(TagsAt(ijk[1]))
                                /\ TagsAt(ijk[1])[ijk[2]] = tag})
                + (IF tag = T_UNKNOWN
                   THEN Cardinality({ij \in rejected : TagsAt(ij) = <<>>})
                   ELSE 0)
            all_tags == {T_UNKNOWN}
                        \cup UNION {{TagsAt(ij)[k] : k \in 1..Len(TagsAt(ij))} :
                                        ij \in AttemptPlaces}
        IN  /\ TableTotal(summary.security_sources, DOMAIN summary.security_sources)
                 = Cardinality(AttemptPlaces)
            /\ summary.blocked_attempts = Cardinality(rejected)
            /\ DOMAIN summary.violation_tags \subseteq all_tags
            /\ \A tag \in all_tags :
                  CounterGet(summary.violation_tags, tag) = occurrences(tag)

\* A window of three act events with six attempts: three blocked, one of
\* them without tags, one accepted attempt that carries the tag DESTRUCT and
\* one attempt without validation.
C31_Witness ==
    /\ lh # None
    /\ lh.got # None
    /\ Len(lh.got.events) = 3
    /\ Cardinality(AttemptPlaces) = 6
    /\ lh.got.summary.blocked_attempts = 3
    /\ CounterGet(lh.got.summary.violation_tags, T_UNKNOWN) = 1
    /\ CounterGet(lh.got.summary.violation_tags, KW_DESTRUCT) = 1
    /\ CounterGet(lh.got.summary.security_sources, "unknown") = 1
    /\ CounterGet(lh.got.summary.security_sources, "fallback") = 2
    /\ \E ij \in AttemptPlaces : ~BlockedAt(ij) /\ TagsAt(ij) = <<KW_DESTRUCT>>

\* The recommendations in the order they are listed.
RecommendationOrder ==
    <<REC_DENY_LIST, REC_FALLBACK, REC_ACT_LATENCY, REC_SCAN_LATENCY>>

\* The list that holds, in the fixed order, the recommendations whose
\* conditions are given as true, and the stable-health message when none is.
ListFor(conditions) ==
    LET chosen == SelectSeq(<<1, 2, 3, 4>>, LAMBDA i : conditions[i])
    IN  IF chosen = <<>> THEN <<REC_STABLE>>
        ELSE [i \in 1..Len(chosen) |-> RecommendationOrder[chosen[i]]]

\* C32: the recommendation list generated for a window of events is
\* determined by the aggregate counters alone (blocked count, source counts,
\* average act latency, average scan latency): it lists in one fixed order
\* the deny-list recommendation exactly when the blocked count is positive,
\* the fallback-mode recommendation exactly when the fallback source count
\* exceeds the remote source count, and the two latency recommendations when
\* an average exceeds its threshold.
C32_RecommendationsFollowCounters ==
    (lh # None /\ lh.got # None /\ lh.got.events # <<>>) =>
        LET summary == lh.got.summary
            recs == summary.recommendations
            has(rec) == \E i \in 1..Len(recs) : recs[i] = rec
            more_fallback == CounterGet(summary.security_sources, "fallback")
                               > CounterGet(summary.security_sources, "white_circle")
        IN  /\ has(REC_DENY_LIST) = (summary.blocked_attempts > 0)
            /\ has(REC_FALLBACK) = more_fallback
            /\ recs = ListFor(<<summary.blocked_attempts > 0,
                                more_fallback,
                                summary.act_avg > 350000,
                                summary.scan_avg > 180000>>)

\* A window whose counters raise all four recommendations, listed in order.
C32_Witness ==
    /\ lh # None
    /\ lh.got # None
    /\ lh.got.summary.blocked_attempts = 1
    /\ CounterGet(lh.got.summary.security_sources, "fallback") = 2
    /\ CounterGet(lh.got.summary.security_sources, "white_circle") = 0
    /\ lh.got.summary.act_avg = 380000
    /\ lh.got.summary.scan_avg = 200000
    /\ lh.got.summary.recommendations
         = <<REC_DENY_LIST, REC_FALLBACK, REC_ACT_LATENCY, REC_SCAN_LATENCY>>

\* C33: in every state of a session's attempt log at most one record has
\* valid=true, and if there is one it is the last record; the log of an
\* EXECUTED outcome is rejected attempts followed by exactly one accepted
\* attempt, and the log of a MANUAL_OVERRIDE_REQUIRED outcome holds rejected
\* attempts only.
C33_AcceptedAttemptIsLast ==
    \A s \in Sessions :
        LET log == attempts_log[s]
            accepted == {i \in 1..Len(log) : log[i].validation.valid}
        IN  /\ Cardinality(accepted) <= 1
            /\ accepted \subseteq {Len(log)}
            /\ accepted # {} => pc[s] = "done"
            /\ (pc[s] = "done" /\ resp[s].status = "EXECUTED") =>
                  /\ accepted = {Len(log)}
                  /\ Len(log) >= 1
                  /\ resp[s].attempts_log = log
            /\ (pc[s] = "done" /\ resp[s].status = "MANUAL_OVERRIDE_REQUIRED") =>
                  /\ accepted = {}
                  /\ resp[s].attempts_log = log

\* A session that ended EXECUTED on its third attempt after two rejections.
C33_Witness ==
    \E s \in Sessions :
        /\ pc[s] = "done"
        /\ resp[s].status = "EXECUTED"
        /\ Len(attempts_log[s]) = 3
        /\ ~attempts_log[s][1].validation.valid
        /\ ~attempts_log[s][2].validation.valid
        /\ attempts_log[s][3].validation.valid

C35_SafeDefaultAcceptedWithoutRemote ==
    /\ local_violations(SAFETY_FALLBACK) = {}
    /\ \A s \in Sessions :
        \A i \in 1..Len(attempts_log[s]) :
            LET entry == attempts_log[s][i]
            IN  entry.command = SAFETY_FALLBACK =>
                    /\ entry.validation.source # "local_deny_list"
                    /\ ~client => entry.validation.source = "fallback"
                    /\ entry.validation.source = "fallback" =>
                          /\ entry.validation.valid
                          /\ i = Len(attempts_log[s])
                          /\ pc[s] = "done"
                          /\ resp[s].status = "EXECUTED"
                          /\ resp[s].attempts = i
                          /\ resp[s].final_command = SAFETY_FALLBACK
                          /\ Get(resp[s].final_command, K_action) = JStr(T_HOLD_POSITION)
                          /\ Get(resp[s].final_command, K_confidence_score) = JNum(N_0_0)

\* With a remote client configured, attempt 1 was rejected by the remote
\* tier, the proposer then failed and the remote call failed too: the safe
\* default was accepted as attempt 2 with source fallback.
C35_Witness ==
    \E s \in Sessions :
        /\ client
        /\ pc[s] = "done"
        /\ Len(attempts_log[s]) = 2
        /\ attempts_log[s][1].validation.source = "white_circle"
        /\ attempts_log[s][2].command = SAFETY_FALLBACK
        /\ attempts_log[s][2].validation.source = "fallback"
        /\ resp[s].status = "EXECUTED"
        /\ resp[s].attempts = 2

\* The fields of the spacecraft state other than the write stamp.
StateFields ==
    {"position", "velocity", "original_trajectory", "last_maneuver", "maneuver_history"}

\* C36: after every operation that mutates the state store (the apply and
\* persist of an accepted session, /restore), whether its write of the state
\* file succeeded or failed, the in-memory state equals the stored state in
\* position, velocity, original_trajectory, last_maneuver and
\* maneuver_history.
\* Violated when the write fails: _state is assigned before the file is
\* written.
C36_MemoryEqualsStoredAfterMutation ==
    [][state' # state =>
          /\ state_file'.kind = "json"
          /\ \A f \in StateFields : state_file'.value[f] = state'[f]]_vars

\* C37: restore_original_trajectory never changes maneuver_history: the
\* trajectory_restoration record is stored in last_maneuver only, so after a
\* successful restore the history has the entries it had, and last_maneuver
\* is not the last entry of the history.
C37_RestoreKeepsHistory ==
    [][RestoreCall =>
          LET h == sh'.cur.maneuver_history
          IN  /\ h = sh.cur.maneuver_history
              /\ sh'.restored =>
                    /\ sh'.cur.last_maneuver.reason = "trajectory_restoration"
                    /\ \A i \in 1..Len(h) : h[i] # sh'.cur.last_maneuver]_vars

\* A restore after two maneuvers: both are in the history, and last_maneuver
\* is the restoration record.
C37_Witness ==
    /\ sh # None
    /\ sh.restored
    /\ sh.n = 0
    /\ Len(sh.cur.maneuver_history) = 2
    /\ sh.cur.last_maneuver # None
    /\ sh.cur.last_maneuver.reason = "trajectory_restoration"
    /\ sh.cur.maneuver_history[2].reason = "collision_avoidance"

\* C38: from a state with a null original_trajectory, n >= 1 apply_maneuver
\* calls followed by one restore_original_trajectory give a state whose
\* position and velocity are those held before the first apply_maneuver and
\* whose original_trajectory is null again; a restore immediately after that
\* one returns restored=false and changes nothing.
C38_ApplyThenRestoreRoundTrip ==
    [][RestoreCall =>
          /\ sh.n >= 1 =>
                /\ sh'.restored
                /\ sh'.cur.position = sh.pre.position
                /\ sh'.cur.velocity = sh.pre.velocity
                /\ sh'.cur.original_trajectory = None
          /\ (sh.n = 0 /\ sh.restored) =>
                /\ ~sh'.restored
                /\ sh'.cur = sh.cur]_vars

\* Two maneuvers, a restore, and a second restore that found no baseline.
C38_Witness ==
    /\ sh # None
    /\ sh.total = 4
    /\ sh.n = 0
    /\ ~sh.restored
    /\ Len(sh.cur.maneuver_history) = 2
    /\ sh.cur.original_trajectory = None
    /\ sh.cur.last_maneuver # None
    /\ sh.cur.last_maneuver.reason = "trajectory_restoration"
    /\ sh.cur.position = sh.pre.position
    /\ sh.cur.velocity = sh.pre.velocity
=============================================================================
